---- MODULE Spec2Model ----
(***************************************************************************)
(* A model of the Fastfood offer scraper (OmarAxels/Fastfood):             *)
(*   - the regex food extractor      scraper/src/food_extractor.py         *)
(*   - the LLM food extractor        scraper/src/llm_food_extractor.py     *)
(*   - the parsers' food enhancement scraper/src/parsers/*.py              *)
(*   - the orchestrator              scraper/src/scraper.py                *)
(* Each part has its own variables and its own specification; the          *)
(* variables of the other parts stay at their initial values.              *)
(* Icelandic words are written without diacritics (stor = stór).           *)
(***************************************************************************)
EXTENDS Integers, Sequences, FiniteSets, TLC

\* ------------------------------------------------------------------ bounds
\* longest list of scanned food items of one offer text (regex extractor)
MaxItems == 3
\* largest quantity a phrase states for one item (regex extractor)
MaxQuantity == 2
\* longest restaurant list of fastfood-info.json (orchestrator)
MaxRestaurants == 3
\* most offers one scrape_offers call returns (orchestrator)
MaxScraped == 2
\* most offers handed to one enhance_offers_with_food_info call
MaxOffers == 2
\* most food items in one entry of an LLM reply
MaxLLMItems == 2
\* largest quantity the LLM reports for an item
MaxLLMQuantity == 2
\* most entries in the "offers" array of a batch reply
MaxResults == 2
\* enhancements one after the other, the vocabulary file carrying over
MaxBatches == 2
\* parser instances constructed by _initialize_parsers, each with its extractor
MaxParsers == 2
\* most entries in one new_categories list
MaxNewCategories == 2
\* pieces a price text is put together from
MaxPieces == 3
\* candidate offers in one reply of the AI model
MaxCandidates == 2
\* product elements a strategy of the KFC parser finds on a page
MaxElements == 3
\* food items of an offer the icon mapping enhances
MaxIconItems == 4
MaxDbOffers == 2
MaxDbRuns == 2
MaxTokens == 3
MaxWords == 3

\* --------------------------------------------------------------- variables
VARIABLES
    rx_pc,          \* regex extractor: "input", "extracted", "remerged"
    rx_text,        \* the words of offer_name + description (lower-cased by the code)
    rx_scanned,     \* the items _extract_food_items appended before the merge pass
    rx_hash,        \* iteration order of a Python set of modifier strings
    rx_result,      \* what extract_food_info returned
    rx_again        \* _merge_similar_items applied to the returned food_items

rx_vars == <<rx_pc, rx_text, rx_scanned, rx_hash, rx_result, rx_again>>

VARIABLES
    run_pc,         \* FastfoodScraper.run: "start", "loop", "done", "raised"
    restaurants,    \* the list load_restaurants returns (names)
    stats,          \* FastfoodScraper.stats
    handled         \* the _scrape_restaurant calls made: restaurant and what its
                    \* collaborators did

run_vars == <<run_pc, restaurants, stats, handled>>

VARIABLES
    llm_pc,          \* food enhancement: "idle", "scraped", "enhanced" ("off": not run)
    parser,          \* the parser of the restaurant: "base" or "dominos"
    offers,          \* the raw offers scrape_offers returned
    llm_calls,       \* what the LLM backend did in the enhancement (its replies)
    categories_data, \* LLMFoodExtractor.categories_data['food_categories'], as the
                     \* extractor saves it and the next extractor loads it
    batch_returns,   \* each extract_food_info_batch call: its offers, what it returned
    enhanced,        \* what enhance_offers_with_food_info returned
    enhance_raised,  \* whether enhance_offers_with_food_info raised
    exported,        \* what this _scrape_restaurant appended to enhanced_offers_data
    icon_map,        \* the entries of food_icon_mapping.json
    icons_cache,     \* IconMapping._icons_cache: None until the first get_food_icon
    batches          \* enhancements done so far

llm_vars == <<llm_pc, parser, offers, llm_calls, categories_data, batch_returns,
              enhanced, enhance_raised, exported, icon_map, icons_cache, batches>>

VARIABLES
    voc_pc,          \* vocabulary store: "start", "run" ("off": not run)
    voc_file,        \* food_categories of the persisted food_categories.json
    voc_mem,         \* categories_data['food_categories'] of each extractor built
    voc_written,     \* the category names the file has held so far
    voc_last         \* the last _update_categories call: extractor, argument,
                     \* vocabulary before and after, whether it raised

voc_vars == <<voc_pc, voc_file, voc_mem, voc_written, voc_last>>

VARIABLES
    px_pc,           \* price extraction: "text", "extracted" ("off": not run)
    price_text,      \* the argument of _extract_price_kr, a sequence of characters
    price_kr         \* what _extract_price_kr returned: None or Some(price)

px_vars == <<px_pc, price_text, price_kr>>

VARIABLES
    ai_pc,           \* AI parser: "page", "scraped" ("off": not run)
    ai_markdown,     \* whether _get_markdown_content returned any content
    ai_calls,        \* the g4f.ChatCompletion.create calls of this page: the
                     \* model, whether the call raised
    ai_response,     \* the response the offers were read from: None or Some
    ai_offers        \* what scrape_offers returned

ai_vars == <<ai_pc, ai_markdown, ai_calls, ai_response, ai_offers>>

VARIABLES
    kfc_pc,          \* KFC restaurant: "page", "handled" ("off": not run)
    kfc_page,        \* the offers page: whether fetching it raises, the product
                     \* elements of its offer sections, the product elements the
                     \* search by content finds (each: whether it has a name)
    kfc_strategies,  \* the extraction strategies run on the page, in order
    kfc_offers,      \* what KFCParser.scrape_offers returned
    kfc_failed       \* stats['failed_scrapes'] of this restaurant

kfc_vars == <<kfc_pc, kfc_page, kfc_strategies, kfc_offers, kfc_failed>>

VARIABLES
    icon_pc,         \* icon mapping: "offer", "once", "twice" ("off": not run)
    icon_table,      \* IconMapping._icons_cache
    icon_offer,      \* the offer given to IconMapping.enhance_offer
    icon_once,       \* enhance_offer(offer)
    icon_twice       \* enhance_offer(enhance_offer(offer))

icon_vars == <<icon_pc, icon_table, icon_offer, icon_once, icon_twice>>

\* the persistence part of FastfoodScraper._scrape_restaurant
VARIABLES
    db_pc,           \* "off" while this part is not under study, else "run"
    db_table,        \* the rows of the offers table
    db_stats,        \* FastfoodScraper.stats
    db_runs,         \* how many times _scrape_restaurant has run
    db_restaurant,   \* the id of the restaurant handled last
    db_passed,       \* enhanced_offers as passed to prepare_offers_for_database
    db_enhanced,     \* enhanced_offers after that call
    db_offers,       \* what prepare_offers_for_database returned
    db_outcome       \* how the last _scrape_restaurant ended

db_vars == <<db_pc, db_table, db_stats, db_runs, db_restaurant, db_passed,
             db_enhanced, db_offers, db_outcome>>

\* FoodExtractor._extract_item_details on one phrase
VARIABLES
    qty_pc,          \* "off" while this part is not under study, else "phrase", "done"
    qty_phrase,      \* the phrase, as its blank-separated tokens
    qty_item,        \* the item _extract_item_details returned
    qty_inches       \* size_info['inches'] of the phrase, None when absent

qty_vars == <<qty_pc, qty_phrase, qty_item, qty_inches>>

\* BaseParser.extract_weekdays on one text
VARIABLES
    wd_pc,           \* "off" while this part is not under study, else "text", "done"
    wd_text,         \* the text, as its words
    wd_found         \* the tokens of the comma-joined result, <<>> for None

wd_vars == <<wd_pc, wd_text, wd_found>>

\* BaseParser.extract_hours on one text
VARIABLES
    hr_pc,           \* "off" while this part is not under study, else "text", "done"
    hr_text,         \* the text, as its words and time expressions
    hr_found         \* the ranges of the comma-joined result, <<>> for None

hr_vars == <<hr_pc, hr_text, hr_found>>

vars == <<rx_vars, run_vars, llm_vars, voc_vars, px_vars, ai_vars, kfc_vars, icon_vars,
          db_vars, qty_vars, wd_vars, hr_vars>>

\* the variables each part leaves alone
not_rx_vars == <<run_vars, llm_vars, voc_vars, px_vars, ai_vars, kfc_vars, icon_vars,
    db_vars, qty_vars, wd_vars, hr_vars>>
not_run_vars == <<rx_vars, llm_vars, voc_vars, px_vars, ai_vars, kfc_vars, icon_vars,
    db_vars, qty_vars, wd_vars, hr_vars>>
not_llm_vars == <<rx_vars, run_vars, voc_vars, px_vars, ai_vars, kfc_vars, icon_vars,
    db_vars, qty_vars, wd_vars, hr_vars>>
not_voc_vars == <<rx_vars, run_vars, llm_vars, px_vars, ai_vars, kfc_vars, icon_vars,
    db_vars, qty_vars, wd_vars, hr_vars>>
not_px_vars == <<rx_vars, run_vars, llm_vars, voc_vars, ai_vars, kfc_vars, icon_vars,
    db_vars, qty_vars, wd_vars, hr_vars>>
not_ai_vars == <<rx_vars, run_vars, llm_vars, voc_vars, px_vars, kfc_vars, icon_vars,
    db_vars, qty_vars, wd_vars, hr_vars>>
not_kfc_vars == <<rx_vars, run_vars, llm_vars, voc_vars, px_vars, ai_vars, icon_vars,
    db_vars, qty_vars, wd_vars, hr_vars>>
not_icon_vars == <<rx_vars, run_vars, llm_vars, voc_vars, px_vars, ai_vars, kfc_vars,
    db_vars, qty_vars, wd_vars, hr_vars>>
not_db_vars == <<rx_vars, run_vars, llm_vars, voc_vars, px_vars, ai_vars, kfc_vars,
    icon_vars, qty_vars, wd_vars, hr_vars>>
not_qty_vars == <<rx_vars, run_vars, llm_vars, voc_vars, px_vars,
    ai_vars, kfc_vars, icon_vars, db_vars, wd_vars, hr_vars>>
not_wd_vars == <<rx_vars, run_vars, llm_vars, voc_vars, px_vars,
    ai_vars, kfc_vars, icon_vars, db_vars, qty_vars, hr_vars>>
not_hr_vars == <<rx_vars, run_vars, llm_vars, voc_vars, px_vars,
    ai_vars, kfc_vars, icon_vars, db_vars, qty_vars, wd_vars>>

\* ------------------------------------------------------------------ helpers
Range(s) == {s[i] : i \in 1..Len(s)}

RECURSIVE SumQuantity(_)
SumQuantity(s) == IF s = <<>> THEN 0 ELSE Head(s).quantity + SumQuantity(Tail(s))

SeqsUpTo(S, n) == UNION {[1..k -> S] : k \in 0..n}

Permutations2(S) == {p \in [1..Cardinality(S) -> S] : Range(p) = S}

NoValue == "none"

\* ------------------------------------------------ regex extractor: lexicon
\* FoodExtractor.food_categories: type -> category (four of the eleven types)
food_categories ==
    [pizza  |-> [category |-> "main"],
     fries  |-> [category |-> "side"],
     soda   |-> [category |-> "drink"],
     cookie |-> [category |-> "dessert"]]

RegexTypes == DOMAIN food_categories

\* modifier_patterns of _extract_modifiers, in list order (two of the pizza words)
modifier_patterns == [pizza |-> <<"stor", "pepperoni">>]

\* the words of a phrase that the size and modifier patterns look for
PhraseWords == {"stor", "pepperoni"}

\* the text of an offer, as words; "fjolskyldutilbod" contains "fjolskyldu"
OfferTexts == {<<"tilbod">>, <<"fjolskyldutilbod">>}

ContainsFamilyWord(text) == \E i \in 1..Len(text) : text[i] = "fjolskyldutilbod"

\* _extract_size: the descriptor patterns ("stor" is in pizza_size and general_size)
_extract_size(words) ==
    IF "stor" \in words THEN [unit |-> "descriptor", descriptor |-> "stor"]
    ELSE [unit |-> NoValue, descriptor |-> NoValue]

\* _extract_modifiers: the pattern words of the type that occur in the phrase
_extract_modifiers(words, food_type) ==
    IF food_type \in DOMAIN modifier_patterns
    THEN SelectSeq(modifier_patterns[food_type], LAMBDA m : m \in words)
    ELSE <<>>

\* _extract_item_details for a phrase with these words, matched type and quantity
_extract_item_details(words, food_type, quantity) ==
    [type      |-> food_type,
     category  |-> food_categories[food_type].category,
     quantity  |-> quantity,
     size      |-> _extract_size(words),
     modifiers |-> _extract_modifiers(words, food_type)]

\* every item a phrase can yield
ScannedItems ==
    {_extract_item_details(w, t, q) :
        w \in SUBSET PhraseWords, t \in RegexTypes, q \in 1..MaxQuantity}

\* list(set(xs)): the elements of xs once each, in the set's iteration order
ListOfSet(xs, order) == SelectSeq(order, LAMBDA m : m \in Range(xs))

\* index of the first merged item with the same (type, size), 0 when none
FindExisting(merged, item) ==
    LET hits == {i \in 1..Len(merged) :
                    /\ merged[i].type = item.type
                    /\ merged[i].size = item.size}
    IN IF hits = {} THEN 0 ELSE CHOOSE i \in hits : \A j \in hits : i <= j

\* a merge loop body without the else branch: the item is appended even when
\* it was merged into an existing one
MergeOneAlwaysAppend(merged, item, order) ==
    LET k == FindExisting(merged, item)
    IN IF k # 0
       THEN Append([merged EXCEPT ![k].quantity = @ + item.quantity], item)
       ELSE Append(merged, item)

\* one iteration of the loop of _merge_similar_items
MergeOne(merged, item, order) ==
    LET k == FindExisting(merged, item)
    IN IF k # 0
       THEN [merged EXCEPT
               ![k].quantity = @ + item.quantity,
               ![k].modifiers = IF item.modifiers # <<>>
                                THEN ListOfSet(@ \o item.modifiers, order)
                                ELSE @]
       ELSE Append(merged, item)

RECURSIVE MergeFrom(_, _, _)
MergeFrom(merged, items, order) ==
    IF items = <<>> THEN merged
    ELSE MergeFrom(MergeOne(merged, Head(items), order), Tail(items), order)

_merge_similar_items(items, order) == MergeFrom(<<>>, items, order)

CountCategory(items, cats) ==
    Cardinality({i \in 1..Len(items) : items[i].category \in cats})

HasCategory(items, c) == \E i \in 1..Len(items) : items[i].category = c

\* FoodExtractor._determine_meal_type
_determine_meal_type(food_items) ==
    LET total_items == SumQuantity(food_items)
    IN IF total_items >= 6 THEN "family"
       ELSE IF CountCategory(food_items, {"main"}) >= 2 THEN "sharing"
       ELSE IF HasCategory(food_items, "main")
               /\ (HasCategory(food_items, "side") \/ HasCategory(food_items, "drink"))
            THEN "combo"
       ELSE IF HasCategory(food_items, "main") THEN "individual"
       ELSE IF HasCategory(food_items, "dessert") THEN "dessert"
       ELSE "snack"

ItemsOfCategory(items, c) == SelectSeq(items, LAMBDA it : it.category = c)

\* FoodExtractor.extract_food_info, from the scanned items on
extract_food_info(scanned, order) ==
    LET food_items == _merge_similar_items(scanned, order)
    IN [food_items    |-> food_items,
        total_items   |-> SumQuantity(food_items),
        meal_type     |-> _determine_meal_type(food_items),
        is_combo      |-> CountCategory(food_items, {"main", "side", "drink"}) >= 2,
        main_items    |-> ItemsOfCategory(food_items, "main"),
        side_items    |-> ItemsOfCategory(food_items, "side"),
        drink_items   |-> ItemsOfCategory(food_items, "drink"),
        dessert_items |-> ItemsOfCategory(food_items, "dessert")]

NoResult == [food_items |-> <<>>, total_items |-> 0, meal_type |-> NoValue,
             is_combo |-> FALSE, main_items |-> <<>>, side_items |-> <<>>,
             drink_items |-> <<>>, dessert_items |-> <<>>]

\* ------------------------------------------------ regex extractor: actions
RxInit ==
    /\ rx_pc = "input"
    /\ rx_text \in OfferTexts
    /\ rx_scanned \in SeqsUpTo(ScannedItems, MaxItems)
    /\ rx_hash \in Permutations2(PhraseWords)
    /\ rx_result = NoResult
    /\ rx_again = <<>>

RxIdle ==
    /\ rx_pc = "off"
    /\ rx_text = <<>>
    /\ rx_scanned = <<>>
    /\ rx_hash = <<>>
    /\ rx_result = NoResult
    /\ rx_again = <<>>

\* extract_food_info(offer_name, description)
ExtractFoodInfo ==
    /\ rx_pc = "input"
    /\ rx_result' = extract_food_info(rx_scanned, rx_hash)
    /\ rx_pc' = "extracted"
    /\ UNCHANGED <<rx_text, rx_scanned, rx_hash, rx_again>>
    /\ UNCHANGED not_rx_vars

\* _merge_similar_items called again, on the list it returned
MergeAgain ==
    /\ rx_pc = "extracted"
    /\ rx_again' = _merge_similar_items(rx_result.food_items, rx_hash)
    /\ rx_pc' = "remerged"
    /\ UNCHANGED <<rx_text, rx_scanned, rx_hash, rx_result>>
    /\ UNCHANGED not_rx_vars

RxNext == ExtractFoodInfo \/ MergeAgain

\* ------------------------------------------------------------ orchestrator
RestaurantNames == {"KFC Iceland", "Dominos Pizza Iceland", "Subway Iceland"}

\* the restaurant lists fastfood-info.json can hold (every entry validated by
\* load_restaurants to carry name and offers_page)
RestaurantLists ==
    {l \in SeqsUpTo(RestaurantNames, MaxRestaurants) :
        \A i, j \in 1..Len(l) : i # j => l[i] # l[j]}

\* what the collaborators of one _scrape_restaurant call do:
\*   scrape_raised   parser.scrape_offers raised (fetch failure not caught below)
\*   no_offers       scrape_offers returned an empty list
\*   enhance_raised  enhance_offers_with_food_info raised
\*   enrich_raised   IconMapping.enhance_offer raised on one of the offers
\*   batch_saved     save_offers_batch committed
\*   batch_failed    save_offers_batch raised; `singles` of the individual
\*                   save_offer calls succeeded
Outcomes ==
    {[kind |-> k, offers |-> 0, singles |-> 0] : k \in {"scrape_raised", "no_offers"}}
    \cup {[kind |-> k, offers |-> n, singles |-> 0] :
            k \in {"enhance_raised", "enrich_raised", "batch_saved"},
            n \in 1..MaxScraped}
    \cup {o \in [kind : {"batch_failed"}, offers : 1..MaxScraped, singles : 0..MaxScraped] :
            o.singles <= o.offers}

Bump(st, field, n) == [st EXCEPT ![field] = @ + n]

\* _scrape_restaurant with the handler of its outer try removed: an exception
\* of a collaborator leaves the method
ScrapeRestaurantUnguarded(st, o) ==
    IF o.kind \in {"scrape_raised", "enhance_raised", "enrich_raised"}
    THEN [stats |-> st, raised |-> TRUE]
    ELSE IF o.kind = "no_offers"
    THEN [stats |-> Bump(st, "failed_scrapes", 1), raised |-> FALSE]
    ELSE IF o.kind = "batch_saved"
    THEN [stats |-> Bump(Bump(Bump(st, "offers_saved", o.offers),
                              "total_offers", o.offers),
                         "successful_scrapes", 1),
          raised |-> FALSE]
    ELSE IF o.singles > 0
    THEN [stats |-> Bump(Bump(Bump(st, "offers_saved", o.singles),
                              "total_offers", o.offers),
                         "successful_scrapes", 1),
          raised |-> FALSE]
    ELSE [stats |-> Bump(st, "failed_scrapes", 1), raised |-> FALSE]

\* _scrape_restaurant without the else of the individual saves: a restaurant
\* none of whose offers could be saved is counted nowhere
ScrapeRestaurantNoElse(st, o) ==
    IF o.kind \in {"scrape_raised", "enhance_raised", "enrich_raised", "no_offers"}
    THEN [stats |-> Bump(st, "failed_scrapes", 1), raised |-> FALSE]
    ELSE IF o.kind = "batch_saved"
    THEN [stats |-> Bump(Bump(Bump(st, "offers_saved", o.offers),
                              "total_offers", o.offers),
                         "successful_scrapes", 1),
          raised |-> FALSE]
    ELSE IF o.singles > 0
    THEN [stats |-> Bump(Bump(Bump(st, "offers_saved", o.singles),
                              "total_offers", o.offers),
                         "successful_scrapes", 1),
          raised |-> FALSE]
    ELSE [stats |-> st, raised |-> FALSE]

\* FastfoodScraper._scrape_restaurant: the new stats, and whether it raised
_scrape_restaurant(st, o) ==
    IF o.kind \in {"scrape_raised", "enhance_raised", "enrich_raised"}
    THEN \* except Exception: failed_scrapes += 1
         [stats |-> Bump(st, "failed_scrapes", 1), raised |-> FALSE]
    ELSE IF o.kind = "no_offers"
    THEN [stats |-> Bump(st, "failed_scrapes", 1), raised |-> FALSE]
    ELSE IF o.kind = "batch_saved"
    THEN [stats |-> Bump(Bump(Bump(st, "offers_saved", o.offers),
                              "total_offers", o.offers),
                         "successful_scrapes", 1),
          raised |-> FALSE]
    ELSE IF o.singles > 0
    THEN [stats |-> Bump(Bump(Bump(st, "offers_saved", o.singles),
                              "total_offers", o.offers),
                         "successful_scrapes", 1),
          raised |-> FALSE]
    ELSE [stats |-> Bump(st, "failed_scrapes", 1), raised |-> FALSE]

ZeroStats == [total_offers |-> 0, successful_scrapes |-> 0, failed_scrapes |-> 0,
              restaurants_processed |-> 0, offers_saved |-> 0]

RunInit ==
    /\ run_pc = "start"
    /\ restaurants = <<>>
    /\ stats = ZeroStats
    /\ handled = <<>>

RunIdle ==
    /\ run_pc = "off"
    /\ restaurants = <<>>
    /\ stats = ZeroStats
    /\ handled = <<>>

\* run: restaurants = self.json_reader.load_restaurants()
LoadRestaurants ==
    /\ run_pc = "start"
    /\ \E l \in RestaurantLists : restaurants' = l
    /\ run_pc' = "loop"
    /\ UNCHANGED <<stats, handled>>
    /\ UNCHANGED not_run_vars

\* run: load_restaurants raised (missing file, bad JSON, missing field)
LoadFails ==
    /\ run_pc = "start"
    /\ run_pc' = "raised"
    /\ UNCHANGED <<restaurants, stats, handled>>
    /\ UNCHANGED not_run_vars

\* run: one iteration of the loop over the restaurants
ScrapeNext ==
    /\ run_pc = "loop"
    /\ Len(handled) < Len(restaurants)
    /\ \E o \in Outcomes :
          LET r == _scrape_restaurant(Bump(stats, "restaurants_processed", 1), o)
          IN /\ stats' = r.stats
             /\ handled' = Append(handled,
                                  [name |-> restaurants[Len(handled) + 1], outcome |-> o])
             /\ run_pc' = IF r.raised THEN "raised" ELSE "loop"
    /\ UNCHANGED restaurants
    /\ UNCHANGED not_run_vars

\* run: the loop is over: _log_summary, _save_enhanced_offers_json
FinishRun ==
    /\ run_pc = "loop"
    /\ Len(handled) = Len(restaurants)
    /\ run_pc' = "done"
    /\ UNCHANGED <<restaurants, stats, handled>>
    /\ UNCHANGED not_run_vars

RunNext == LoadRestaurants \/ LoadFails \/ ScrapeNext \/ FinishRun

\* ------------------------------------------- LLM food extractor: the data
\* Python None and a present value, as a list of no or one element
None == <<>>
Some(v) == <<v>>

\* dict.get(key, default)
Get(d, key, default) == IF key \in DOMAIN d THEN d[key] ELSE default

\* dict.update: the keys of u replace those of d
Update(d, u) == u @@ d

\* food_categories.json as loaded by _load_categories at construction (the
\* four types of the regex lexicon; every entry carries a category and an icon)
LoadedCategories ==
    [pizza  |-> [terms |-> <<"pizza">>, category |-> "main",
                 icon |-> "mdi:pizza", description |-> "pizza"],
     fries  |-> [terms |-> <<"franskar">>, category |-> "side",
                 icon |-> "mdi:french-fries", description |-> "fries"],
     soda   |-> [terms |-> <<"gos">>, category |-> "drink",
                 icon |-> "mdi:cup", description |-> "soda"],
     cookie |-> [terms |-> <<"kaka">>, category |-> "dessert",
                 icon |-> "mdi:cookie", description |-> "cookie"]]

\* LLMFoodExtractor.icelandic_declensions (two of its entries)
icelandic_declensions == [pizzur |-> "pizza", gosi |-> "gos"]

\* _normalize_icelandic_word (the reply's names are lower case, not blank)
_normalize_icelandic_word(word) ==
    IF word \in DOMAIN icelandic_declensions THEN icelandic_declensions[word] ELSE word

\* _get_category_for_type
_get_category_for_type(food_type, cd) ==
    IF food_type \in DOMAIN cd.food_categories
    THEN cd.food_categories[food_type].category ELSE "main"

\* the name the LLM gives an item of a type; "wrap" is a type the vocabulary
\* does not know at construction
LLMNames == [pizza |-> "pizzur", soda |-> "gosi", cookie |-> "kaka", wrap |-> "vefja"]
LLMTypes == DOMAIN LLMNames

\* the food_items entries of a reply: a quantity of 1 and is_choice = false are
\* left out by the LLM (the parser's defaults apply), an alternative carries
\* its choice_group; one soda comes with a liters size; one entry has no name
LLMItems ==
    {[name |-> LLMNames[t], type |-> t] : t \in LLMTypes}
    \cup {[name |-> LLMNames[t], type |-> t, quantity |-> q] :
            t \in LLMTypes, q \in 2..MaxLLMQuantity}
    \cup {[name |-> LLMNames[t], type |-> t, quantity |-> q,
           is_choice |-> TRUE, choice_group |-> Some("choice")] :
            t \in LLMTypes, q \in 1..MaxLLMQuantity}
    \cup {[name |-> "gosi", type |-> "soda", quantity |-> 2, size |-> Some([liters |-> 2])]}
    \cup {[type |-> "pizza", quantity |-> 1]}

\* meal_type strings of a reply: two of the enum and one the enum does not hold
LLMMealTypes == {"combo", "family", "feast"}

\* new_categories of a reply: none, a new type with a category outside the four,
\* an entry without its category
LLMNewCategories ==
    {<<>>,
     <<[name |-> "wrap", category |-> "appetizer", description |-> "wraps"]>>,
     <<[name |-> "wrap", description |-> "wraps"]>>}

\* an entry of the "offers" array with every key of the response format: any
\* items and meal type, or a wrap with the new category it calls for
RichResults ==
    [offer_id : {1},
     food_items : SeqsUpTo(LLMItems, MaxLLMItems),
     meal_type : LLMMealTypes,
     new_categories : {<<>>}]
    \cup [offer_id : {1},
          food_items : {<<>>, <<[name |-> "vefja", type |-> "wrap"]>>},
          meal_type : {"combo"},
          new_categories : LLMNewCategories \ {<<>>}]

\* plain entries: with or without offer_id, no meal_type, no new_categories
PlainItemLists ==
    {<<>>, <<[name |-> "pizzur", type |-> "pizza"]>>, <<[type |-> "pizza", quantity |-> 1]>>}

PlainResults ==
    [food_items : PlainItemLists]
    \cup [offer_id : 1..(MaxOffers + 1), food_items : PlainItemLists]

\* what g4f.ChatCompletion.create does for the batch prompt: raises, returns
\* text without a JSON object, text whose braces hold no valid JSON, or a JSON
\* object (one rich entry, or up to MaxResults plain entries)
FailedReplies == [kind : {"raise", "text", "badjson"}, offers : {<<>>}]

Replies ==
    FailedReplies
    \cup [kind : {"json"}, offers : {<<r>> : r \in RichResults}]
    \cup [kind : {"json"}, offers : SeqsUpTo(PlainResults, MaxResults)]

NoReply == [kind |-> "none", offers |-> <<>>]

\* what happens for the prompt of one offer in _extract_individual_offers: the
\* prompt cannot be built, or the LLM replies (the JSON object is the entry itself)
RichSingleCalls ==
    {[prompt_raises |-> TRUE, reply |-> NoReply]}
    \cup [prompt_raises : {FALSE}, reply : FailedReplies]
    \cup [prompt_raises : {FALSE},
          reply : [kind : {"json"}, offers : {<<r>> : r \in RichResults}]]

PlainSingleCalls ==
    {[prompt_raises |-> TRUE, reply |-> NoReply]}
    \cup [prompt_raises : {FALSE}, reply : FailedReplies]
    \cup [prompt_raises : {FALSE},
          reply : [kind : {"json"}, offers : {<<r>> : r \in [food_items : PlainItemLists]}]]

\* the individual calls for n offers: the first offer gets any reply, the
\* later ones a plain one
SingleCallLists(n) ==
    {[i \in 1..n |-> IF i = 1 THEN first ELSE rest[i - 1]] :
        first \in RichSingleCalls \cup PlainSingleCalls,
        rest \in [1..(n - 1) -> PlainSingleCalls]}

\* the LLM side of one extract_food_info_batch call on n offers: the batch
\* prompt is built and answered, or building it raises and every offer is
\* submitted on its own
BatchPlans == [prompt_raises : {FALSE}, reply : Replies, singles : {<<>>}]

FallbackPlans(n) == [prompt_raises : {TRUE}, reply : {NoReply}, singles : SingleCallLists(n)]

NoPlan == [prompt_raises |-> FALSE, reply |-> NoReply, singles |-> <<>>]

\* ------------------------------------- LLM food extractor: the conversion
\* LLMFoodExtractor._get_empty_food_info
LLMEmptyFoodInfo ==
    [food_items |-> <<>>, meal_type |-> "unknown", is_combo |-> FALSE,
     total_food_items |-> 0, main_items |-> <<>>, side_items |-> <<>>,
     drink_items |-> <<>>, dessert_items |-> <<>>]

\* BaseParser._get_empty_food_info
BaseEmptyFoodInfo ==
    [food_items |-> <<>>, meal_type |-> "snack", is_combo |-> FALSE,
     complexity_score |-> 0, total_food_items |-> 0, main_items |-> <<>>,
     side_items |-> <<>>, drink_items |-> <<>>, dessert_items |-> <<>>,
     visual_summary |-> "General offer"]

\* item['name'] and item['type'] raise KeyError when the key is missing
ItemRaises(item) == ~ ({"name", "type"} \subseteq DOMAIN item)

\* the food item built from one entry, with the soda quantity normalisation
ConvertItem(item, cd) ==
    LET food_item ==
            [type         |-> item.type,
             name         |-> _normalize_icelandic_word(item.name),
             category     |-> _get_category_for_type(item.type, cd),
             quantity     |-> Get(item, "quantity", 1),
             size         |-> Get(item, "size", None),
             is_choice    |-> Get(item, "is_choice", FALSE),
             choice_group |-> Get(item, "choice_group", None)]
    IN IF food_item.type # "soda" THEN food_item
       ELSE IF food_item.size # None /\ Get(food_item.size[1], "liters", 0) # 0
       THEN [food_item EXCEPT !.quantity = 1]
       ELSE IF food_item.quantity > 1 /\ food_item.size = None /\ food_item.quantity <= 3
       THEN [food_item EXCEPT !.size = Some([liters |-> food_item.quantity]),
                              !.quantity = 1]
       ELSE food_item

ConvertItems(items, cd) == [i \in 1..Len(items) |-> ConvertItem(items[i], cd)]

\* a count that takes the alternatives along
TotalItemsWithChoices(food_items) == SumQuantity(food_items)

\* total_items: the quantities of the items that are no alternative
TotalItems(food_items) ==
    SumQuantity(SelectSeq(food_items, LAMBDA it : ~ it.is_choice))

\* a combo test that takes the alternatives along
IsComboWithChoices(food_items) ==
    Len(SelectSeq(food_items,
                  LAMBDA it : it.category \in {"main", "side", "drink"})) >= 2

\* is_combo: at least two items of main, side or drink that are no alternative
IsCombo(food_items) ==
    Len(SelectSeq(food_items,
                  LAMBDA it : it.category \in {"main", "side", "drink"}
                              /\ ~ it.is_choice)) >= 2

\* the dict built from the converted items of an entry
FoodInfoOf(food_items, entry) ==
    [food_items       |-> food_items,
     meal_type        |-> Get(entry, "meal_type", "snack"),
     is_combo         |-> IsCombo(food_items),
     total_food_items |-> TotalItems(food_items),
     main_items       |-> ItemsOfCategory(food_items, "main"),
     side_items       |-> ItemsOfCategory(food_items, "side"),
     drink_items      |-> ItemsOfCategory(food_items, "drink"),
     dessert_items    |-> ItemsOfCategory(food_items, "dessert"),
     new_categories   |-> Get(entry, "new_categories", <<>>)]

\* the food info of one entry (built by _parse_batch_llm_response and, by the
\* same statements, by _parse_llm_response)
BuildFoodInfo(entry, cd) ==
    FoodInfoOf(ConvertItems(Get(entry, "food_items", <<>>), cd), entry)

EntryRaises(entry) ==
    \E i \in 1..Len(Get(entry, "food_items", <<>>)) :
        ItemRaises(Get(entry, "food_items", <<>>)[i])

Sentinels(n) == [i \in 1..n |-> LLMEmptyFoodInfo]

\* the results as they are, short of the empty food infos for the missing offers
NotPadded(results, n) == results

\* while len(results) < len(offers): results.append(self._get_empty_food_info())
Padded(results, n) ==
    results \o [i \in 1..(IF n > Len(results) THEN n - Len(results) ELSE 0)
                  |-> LLMEmptyFoodInfo]

\* results[:len(offers)]
Truncated(results, n) == SubSeq(results, 1, IF Len(results) < n THEN Len(results) ELSE n)

\* the loop of _parse_batch_llm_response over llm_data['offers'], the padding
\* and the cut after it; an entry that raises ends in the except branch
RECURSIVE ParseEntries(_, _, _, _)
ParseEntries(entries, n, cd, results) ==
    IF entries = <<>> THEN Truncated(Padded(results, n), n)
    ELSE IF Get(Head(entries), "offer_id", 1) - 1 >= n
    THEN ParseEntries(Tail(entries), n, cd, results)
    ELSE IF EntryRaises(Head(entries)) THEN Sentinels(n)
    ELSE ParseEntries(Tail(entries), n, cd,
                      Append(results, BuildFoodInfo(Head(entries), cd)))

\* LLMFoodExtractor._parse_batch_llm_response (it catches what it raises)
_parse_batch_llm_response(reply, n, cd) ==
    IF reply.kind \in {"text", "badjson"} THEN Sentinels(n)
    ELSE ParseEntries(reply.offers, n, cd, <<>>)

\* LLMFoodExtractor._parse_llm_response (it catches what it raises)
_parse_llm_response(reply, cd) ==
    IF reply.kind \in {"text", "badjson"} THEN LLMEmptyFoodInfo
    ELSE IF EntryRaises(reply.offers[1]) THEN LLMEmptyFoodInfo
    ELSE BuildFoodInfo(reply.offers[1], cd)

\* an update that writes every proposed category over the entry of its name
RECURSIVE UpdateOverwriting(_, _)
UpdateOverwriting(cd, new_categories) ==
    IF new_categories = <<>> THEN [raised |-> FALSE, cd |-> cd]
    ELSE IF ~ ({"name", "category", "description"} \subseteq DOMAIN Head(new_categories))
    THEN [raised |-> TRUE, cd |-> cd]
    ELSE UpdateOverwriting(
            (Head(new_categories).name :>
                [terms |-> <<Head(new_categories).name>>,
                 category |-> Head(new_categories).category,
                 icon |-> "",
                 description |-> Head(new_categories).description]) @@ cd,
            Tail(new_categories))

\* LLMFoodExtractor._update_categories: the vocabulary afterwards, and whether
\* an entry without its keys made it raise (the entries before it are kept)
RECURSIVE _update_categories(_, _)
_update_categories(cd, new_categories) ==
    IF new_categories = <<>> THEN [raised |-> FALSE, cd |-> cd]
    ELSE IF "name" \notin DOMAIN Head(new_categories) THEN [raised |-> TRUE, cd |-> cd]
    ELSE IF Head(new_categories).name \in DOMAIN cd
    THEN _update_categories(cd, Tail(new_categories))
    ELSE IF ~ ({"category", "description"} \subseteq DOMAIN Head(new_categories))
    THEN [raised |-> TRUE, cd |-> cd]
    ELSE _update_categories(
            (Head(new_categories).name :>
                [terms |-> <<Head(new_categories).name>>,
                 category |-> Head(new_categories).category,
                 icon |-> "",
                 description |-> Head(new_categories).description]) @@ cd,
            Tail(new_categories))

\* food_icon_mapping.json as the run finds it: its entries in the order of
\* the file
food_icon_mapping ==
    <<[key |-> "pizza", icon |-> "twemoji:pizza", color |-> "#FF6B35"],
      [key |-> "soda", icon |-> "mdi:bottle-soda-classic", color |-> "#4A90E2"]>>

\* the loop of _update_categories over new_categories that syncs the icon
\* mapping file: a name the file does not hold is added with a blank icon and
\* a blank color
RECURSIVE SyncIconMap(_, _)
SyncIconMap(icons, new_categories) ==
    IF new_categories = <<>> THEN icons
    ELSE IF \E k \in 1..Len(icons) : icons[k].key = Head(new_categories).name
    THEN SyncIconMap(icons, Tail(new_categories))
    ELSE SyncIconMap(
            Append(icons, [key |-> Head(new_categories).name, icon |-> "", color |-> ""]),
            Tail(new_categories))

\* the files after the vocabulary update u of _update_categories: the icon
\* mapping file is synced when the update did not raise
StoresAfter(cd, new_categories, u) ==
    [raised |-> u.raised,
     cd |-> [food_categories |-> u.cd,
             icon_map |-> IF u.raised THEN cd.icon_map
                          ELSE SyncIconMap(cd.icon_map, new_categories)]]

\* _update_categories on the vocabulary and the icon mapping file
UpdateStores(cd, new_categories) ==
    StoresAfter(cd, new_categories, _update_categories(cd.food_categories, new_categories))

\* the try block of _extract_batch_food_info after the parse: the loop over
\* batch_results that updates the vocabulary, then return batch_results; the
\* except branch returns the empty food info for every offer
RECURSIVE UpdateFromResults(_, _, _, _)
UpdateFromResults(rest, cd, batch_results, n) ==
    IF rest = <<>>
    THEN [raised |-> FALSE, results |-> batch_results, cd |-> cd, submitted |-> 0]
    ELSE IF Get(Head(rest), "new_categories", <<>>) = <<>>
    THEN UpdateFromResults(Tail(rest), cd, batch_results, n)
    ELSE IF UpdateStores(cd, Head(rest).new_categories).raised
    THEN [raised |-> FALSE, results |-> Sentinels(n),
          cd |-> UpdateStores(cd, Head(rest).new_categories).cd,
          submitted |-> 0]
    ELSE UpdateFromResults(Tail(rest),
                           UpdateStores(cd, Head(rest).new_categories).cd,
                           batch_results, n)

UpdateAll(batch_results, cd, n) == UpdateFromResults(batch_results, cd, batch_results, n)

\* LLMFoodExtractor._extract_batch_food_info: building the prompt is outside
\* its try; the call, the parse and the vocabulary update are inside
_extract_batch_food_info(n, cd, plan) ==
    IF plan.prompt_raises
    THEN [raised |-> TRUE, results |-> <<>>, cd |-> cd, submitted |-> 0]
    ELSE IF plan.reply.kind = "raise"
    THEN [raised |-> FALSE, results |-> Sentinels(n), cd |-> cd, submitted |-> 0]
    ELSE UpdateAll(_parse_batch_llm_response(plan.reply, n, cd), cd, n)

\* LLMFoodExtractor._extract_single_offer_food_info; results holds the one
\* food info it returns
_extract_single_offer_food_info(cd, call) ==
    IF call.prompt_raises
    THEN [raised |-> TRUE, results |-> <<>>, cd |-> cd, submitted |-> 0]
    ELSE IF call.reply.kind = "raise"
    THEN [raised |-> FALSE, results |-> Sentinels(1), cd |-> cd, submitted |-> 0]
    ELSE UpdateAll(<<_parse_llm_response(call.reply, cd)>>, cd, 1)

\* LLMFoodExtractor._extract_individual_offers: each offer with its food info,
\* the empty food info where the single extraction raised; submitted counts
\* the offers it handed to _extract_single_offer_food_info
RECURSIVE _extract_individual_offers(_, _, _, _)
RECURSIVE IndividualOffer(_, _, _, _)
_extract_individual_offers(os, cd, calls, done) ==
    IF os = <<>>
    THEN [raised |-> FALSE, results |-> done, cd |-> cd, submitted |-> Len(done)]
    ELSE IndividualOffer(os, calls, done,
                         _extract_single_offer_food_info(cd, Head(calls)))

\* one turn of its loop, r being what the single extraction came to
IndividualOffer(os, calls, done, r) ==
    _extract_individual_offers(
        Tail(os), r.cd, Tail(calls),
        Append(done, Update(Head(os), IF r.raised THEN LLMEmptyFoodInfo
                                      ELSE r.results[1])))

\* the except branch of extract_food_info_batch, b being what
\* _extract_batch_food_info came to
OrIndividually(os, plan, b) ==
    IF ~ b.raised THEN b
    ELSE _extract_individual_offers(os, b.cd, plan.singles, <<>>)

\* LLMFoodExtractor.extract_food_info_batch
extract_food_info_batch(os, cd, plan) ==
    IF os = <<>> THEN [raised |-> FALSE, results |-> <<>>, cd |-> cd, submitted |-> 0]
    ELSE OrIndividually(os, plan, _extract_batch_food_info(Len(os), cd, plan))

\* ------------------------------------------------ the parsers' enhancement
\* the offer names of a page; lower() of each
OfferNames == {"Tilbod", "Fjolskyldutilbod", "TRIO"}

lower(name) ==
    CASE name = "Tilbod" -> "tilbod"
      [] name = "Fjolskyldutilbod" -> "fjolskyldutilbod"
      [] name = "TRIO" -> "trio"
      [] name = "Bistro" -> "bistro"
      [] name = "Dominos Deluxe" -> "dominos deluxe"
      [] name = "Kjotveisla" -> "kjotveisla"
      [] name = "Manudaga" -> "manudaga"
      [] name = "Kvoldtilbod" -> "kvoldtilbod"
      [] OTHER -> name

\* 'trio' in offer_name_normalized
_is_trio_offer(offer) ==
    /\ Get(offer, "offer_name", "") # ""
    /\ lower(offer.offer_name) \in {"trio"}

\* 'fjolskyldu' in the lower-cased name and description of the offer
HasFamilyEvidence(offer) == lower(offer.offer_name) \in {"fjolskyldutilbod"}

trio_pizza_names == <<"Bistro", "Dominos Deluxe", "Kjotveisla">>

\* DominosParser._enhance_trio_offer
_enhance_trio_offer(offer) ==
    Update(offer, [description |-> "Velja a milli", trio_pizzas |-> trio_pizza_names])

RawOffer(name) == [offer_name |-> name, description |-> ""]

\* the extract_food_info_batch call a parser made: its argument, whether it
\* raised, what it returned, how many offers it submitted one by one
CallOf(os, b) ==
    [offers |-> os, raised |-> b.raised, returned |-> b.results,
     submitted |-> b.submitted]

\* the loop of BaseParser.enhance_offers_with_food_info over the offers, b
\* being what extract_food_info_batch came to; its except branch
BaseMerged(os, b) ==
    [raised   |-> FALSE,
     enhanced |-> [i \in 1..Len(os) |->
                     IF ~ b.raised /\ i <= Len(b.results)
                     THEN Update(os[i], b.results[i])
                     ELSE Update(os[i], BaseEmptyFoodInfo)],
     cd       |-> b.cd,
     calls    |-> <<CallOf(os, b)>>]

\* BaseParser.enhance_offers_with_food_info: what it returns, whether it
\* raised, the vocabulary afterwards, the extract_food_info_batch call it made
Base_enhance_offers_with_food_info(os, cd, plan) ==
    IF os = <<>>
    THEN [raised |-> FALSE, enhanced |-> <<>>, cd |-> cd, calls |-> <<>>]
    ELSE BaseMerged(os, extract_food_info_batch(os, cd, plan))

\* the TRIO branch of DominosParser.enhance_offers_with_food_info, e being the
\* offer with the empty food info and its trio_pizzas
TrioOffer(e) ==
    Update(e, [main_food_type |-> "pizza",
               food_items |-> [i \in 1..Len(Get(e, "trio_pizzas", trio_pizza_names)) |->
                                 [type |-> "pizza",
                                  name |-> Get(e, "trio_pizzas", trio_pizza_names)[i],
                                  category |-> "main", is_choice |-> TRUE]],
               food_description |-> "Velja a milli"])

TempOffer(offer) ==
    [offer_name |-> Get(offer, "offer_name", ""),
     description |-> Get(offer, "description", ""),
     restaurant_name |-> "Dominos Pizza Iceland"]

\* DominosParser.enhance_offers_with_food_info: the loop over the offers; plans[i]
\* is the LLM side of the extraction of offer i
RECURSIVE Dominos_enhance_offers_with_food_info(_, _, _, _)
RECURSIVE DominosExtracted(_, _, _, _)
Dominos_enhance_offers_with_food_info(os, cd, plans, acc) ==
    IF os = <<>> THEN acc
    ELSE IF _is_trio_offer(Head(os))
    THEN Dominos_enhance_offers_with_food_info(
            Tail(os), cd, Tail(plans),
            [acc EXCEPT !.enhanced =
                Append(@, TrioOffer(
                    IF Get(Head(os), "trio_pizzas", <<>>) = <<>>
                    THEN _enhance_trio_offer(Update(Head(os), BaseEmptyFoodInfo))
                    ELSE Update(Head(os), BaseEmptyFoodInfo)))])
    ELSE DominosExtracted(os, plans, acc,
            extract_food_info_batch(<<TempOffer(Head(os))>>, cd, Head(plans)))

\* the other branch, b being what extract_food_info_batch came to:
\* food_info = ...extract_food_info_batch([temp_offer])[0] is outside any try
DominosExtracted(os, plans, acc, b) ==
    IF b.raised \/ b.results = <<>>
    THEN [acc EXCEPT !.raised = TRUE, !.cd = b.cd,
                     !.calls = Append(@, CallOf(<<TempOffer(Head(os))>>, b))]
    ELSE Dominos_enhance_offers_with_food_info(
            Tail(os), b.cd, Tail(plans),
            [acc EXCEPT
                !.enhanced = Append(@, Update(Update(Head(os), BaseEmptyFoodInfo),
                                              b.results[1])),
                !.cd = b.cd,
                !.calls = Append(@, CallOf(<<TempOffer(Head(os))>>, b))])

\* ------------------------------------------------------------ icon mapping
\* IconMapping.TAG_ICONS (the tags the rules of generate_standardized_tags give)
TAG_ICONS ==
    [Kjuklingur |-> [icon |-> "mdi:food-drumstick", color |-> "#D4AF37"],
     Nautakjot  |-> [icon |-> "mdi:food-steak", color |-> "#8B4513"],
     Pizza      |-> [icon |-> "twemoji:pizza", color |-> "#FF6B35"],
     Franskar   |-> [icon |-> "mdi:food-french-fries", color |-> "#8B4513"],
     Sub        |-> [icon |-> "mdi:food-sandwich", color |-> "#228B22"],
     Gos        |-> [icon |-> "mdi:cup", color |-> "#000000"],
     Drykkur    |-> [icon |-> "mdi:cup", color |-> "#4A90E2"]]

\* word in text, for the words the icon mapping looks for and the texts of the
\* model: the empty text is part of every text, "gos" is part of "gosi",
\* "kjukling" of "kjuklingur"
Within(word, text) ==
    \/ word = text
    \/ word = ""
    \/ word = "gos" /\ text = "gosi"
    \/ word = "kjukling" /\ text = "kjuklingur"

\* normalized_type in key or key in normalized_type
Partial(food_type, key) == Within(food_type, key) \/ Within(key, food_type)

FirstWhere(hits) == CHOOSE k \in hits : \A j \in hits : k <= j

\* the mapping of the first entry of icons among hits, else the default
MappingOf(icons, hits) ==
    IF hits = {} THEN [icon |-> "mdi:food", color |-> "#8B4513"]
    ELSE [icon |-> icons[FirstWhere(hits)].icon, color |-> icons[FirstWhere(hits)].color]

\* IconMapping.get_food_icon: the exact type, the category, the first key that
\* holds the type or is held by it, else the default
get_food_icon(icons, food_type, category) ==
    IF \E k \in 1..Len(icons) : icons[k].key = food_type
    THEN MappingOf(icons, {k \in 1..Len(icons) : icons[k].key = food_type})
    ELSE IF category # "" /\ \E k \in 1..Len(icons) : icons[k].key = category
    THEN MappingOf(icons, {k \in 1..Len(icons) : icons[k].key = category})
    ELSE MappingOf(icons, {k \in 1..Len(icons) : Partial(food_type, icons[k].key)})

\* IconMapping.enhance_food_item
enhance_food_item(icons, food_item) ==
    Update(food_item,
           [icon |-> get_food_icon(icons, Get(food_item, "type", ""),
                                   Get(food_item, "category", "")).icon,
            icon_color |-> get_food_icon(icons, Get(food_item, "type", ""),
                                         Get(food_item, "category", "")).color])

EnhanceItems(icons, items) ==
    [i \in 1..Len(items) |-> enhance_food_item(icons, items[i])]

\* any(item.get('type') == food_type or word in item.get('name', '').lower())
AnyItem(items, food_type, word) ==
    \E i \in 1..Len(items) :
        \/ food_type # "" /\ Get(items[i], "type", "") = food_type
        \/ word # "" /\ Within(word, lower(Get(items[i], "name", "")))

\* the labels of the tags in the order of the tests
TagLabels == <<"Kjuklingur", "Nautakjot", "Pizza", "Franskar", "Sub", "Gos", "Drykkur">>

\* the test of generate_standardized_tags that appends the tag of the label
RuleSatisfied(label, offer) ==
    CASE label = "Kjuklingur" -> AnyItem(Get(offer, "food_items", <<>>), "chicken", "kjukling")
      [] label = "Nautakjot" -> AnyItem(Get(offer, "food_items", <<>>), "beef", "nautakjot")
      [] label = "Pizza" -> AnyItem(Get(offer, "food_items", <<>>), "pizza", "pizza")
      [] label = "Franskar" ->
            \/ AnyItem(Get(offer, "food_items", <<>>), "", "franskar")
            \/ AnyItem(Get(offer, "food_items", <<>>), "", "pommes")
      [] label = "Sub" ->
            \/ AnyItem(Get(offer, "food_items", <<>>), "", "batur")
            \/ AnyItem(Get(offer, "food_items", <<>>), "", "sub")
      [] label = "Gos" ->
            /\ Get(offer, "drink_items", <<>>) # <<>>
            /\ \E w \in {"gos", "soda", "kok", "pepsi"} : AnyItem(offer.drink_items, "", w)
      [] label = "Drykkur" ->
            /\ Get(offer, "drink_items", <<>>) # <<>>
            /\ ~ \E w \in {"gos", "soda", "kok", "pepsi"} : AnyItem(offer.drink_items, "", w)

TagOf(label) == [label |-> label, icon |-> TAG_ICONS[label].icon,
                 color |-> TAG_ICONS[label].color]

\* the tags appended from the k-th test on
RECURSIVE TagsFrom(_, _)
TagsFrom(offer, k) ==
    IF k > Len(TagLabels) THEN <<>>
    ELSE (IF RuleSatisfied(TagLabels[k], offer) THEN <<TagOf(TagLabels[k])>> ELSE <<>>)
         \o TagsFrom(offer, k + 1)

\* the tags without the limit
Unlimited(tags) == tags

\* tags[:3]
FirstThree(tags) == SubSeq(tags, 1, IF Len(tags) < 3 THEN Len(tags) ELSE 3)

\* the tags added to the ones the offer already holds
TagsAccumulated(offer) ==
    Get(offer, "standardized_tags", <<>>) \o FirstThree(TagsFrom(offer, 1))

\* IconMapping.generate_standardized_tags: the tags in the order of its
\* tests, the first three of them
generate_standardized_tags(offer) == FirstThree(TagsFrom(offer, 1))

display_properties ==
    [show_category_headers |-> FALSE, show_fallback_info |-> FALSE,
     compact_view |-> TRUE, max_tags |-> 3]

\* the item lists of the offer, enhanced where the offer holds them
WithEnhancedItems(icons, offer) ==
    [k \in DOMAIN offer |->
        IF k \in {"food_items", "main_items", "side_items", "drink_items",
                  "dessert_items"}
        THEN EnhanceItems(icons, offer[k]) ELSE offer[k]]

\* the tags and display properties added to the offer with enhanced items
WithTags(offer) ==
    Update(offer, [standardized_tags |-> generate_standardized_tags(offer),
                   display_properties |-> display_properties])

\* IconMapping.enhance_offer
enhance_offer(icons, offer) == WithTags(WithEnhancedItems(icons, offer))

\* whether enhancing the offers calls get_food_icon: an offer holds an item
CallsGetFoodIcon(enhanced_offers) ==
    \E i \in 1..Len(enhanced_offers) :
        \E k \in {"food_items", "main_items", "side_items", "drink_items",
                  "dessert_items"} \cap DOMAIN enhanced_offers[i] :
            enhanced_offers[i][k] # <<>>

\* IconMapping._load_food_icons: the cache of the class, filled from the file
\* by the first get_food_icon of the process
_load_food_icons(cache, icons) == IF cache = None THEN icons ELSE cache[1]

\* the cache after the loop of _scrape_restaurant over the enhanced offers
CacheAfter(cache, r) ==
    IF ~ r.raised /\ cache = None /\ CallsGetFoodIcon(r.enhanced)
    THEN Some(r.cd.icon_map) ELSE cache

\* the loop of _scrape_restaurant over the enhanced offers: the restaurant
\* name set, the icon mapping applied, the result appended to
\* enhanced_offers_data; nothing when the enhancement raised
Exported(cache, r) ==
    IF r.raised THEN <<>>
    ELSE [i \in 1..Len(r.enhanced) |->
            enhance_offer(_load_food_icons(cache, r.cd.icon_map),
                          Update(r.enhanced[i], [restaurant_name |-> "Restaurant"]))]

\* -------------------------------------------------- enhancement: actions
\* the offer lists a page of the restaurant yields; a Dominos page holds at
\* most one offer that is not the TRIO offer
BaseOfferLists ==
    {[i \in 1..Len(l) |-> RawOffer(l[i])] :
        l \in SeqsUpTo({"Tilbod", "Fjolskyldutilbod"}, MaxOffers)}

DominosOfferLists ==
    {[i \in 1..Len(l) |->
        IF _is_trio_offer(RawOffer(l[i])) THEN _enhance_trio_offer(RawOffer(l[i]))
        ELSE RawOffer(l[i])] :
        l \in {m \in SeqsUpTo({"Fjolskyldutilbod", "TRIO"}, MaxOffers) :
                 m # <<>> /\ Cardinality({i \in 1..Len(m) : m[i] # "TRIO"}) <= 1}}

LlmInit ==
    /\ llm_pc = "idle"
    /\ parser = "none"
    /\ offers = <<>>
    /\ llm_calls = <<>>
    /\ categories_data = LoadedCategories
    /\ batch_returns = <<>>
    /\ enhanced = <<>>
    /\ enhance_raised = FALSE
    /\ exported = <<>>
    /\ icon_map = food_icon_mapping
    /\ icons_cache = None
    /\ batches = 0

LlmIdle ==
    /\ llm_pc = "off"
    /\ parser = "none"
    /\ offers = <<>>
    /\ llm_calls = <<>>
    /\ categories_data = LoadedCategories
    /\ batch_returns = <<>>
    /\ enhanced = <<>>
    /\ enhance_raised = FALSE
    /\ exported = <<>>
    /\ icon_map = food_icon_mapping
    /\ icons_cache = None
    /\ batches = 0

\* _scrape_restaurant of the next restaurant: offers =
\* parser.scrape_offers(offers_url), a parser that inherits
\* BaseParser.enhance_offers_with_food_info
ScrapeOffersBase ==
    /\ llm_pc \in {"idle", "enhanced"}
    /\ batches < MaxBatches
    /\ parser' = "base"
    /\ offers' \in BaseOfferLists
    /\ llm_pc' = "scraped"
    /\ llm_calls' = <<>>
    /\ batch_returns' = <<>>
    /\ enhanced' = <<>>
    /\ exported' = <<>>
    /\ UNCHANGED <<categories_data, enhance_raised, icon_map, icons_cache, batches>>
    /\ UNCHANGED not_llm_vars

\* DominosParser.scrape_offers: the TRIO offer comes with its pizza names
ScrapeOffersDominos ==
    /\ llm_pc \in {"idle", "enhanced"}
    /\ batches < MaxBatches
    /\ parser' = "dominos"
    /\ offers' \in DominosOfferLists
    /\ llm_pc' = "scraped"
    /\ llm_calls' = <<>>
    /\ batch_returns' = <<>>
    /\ enhanced' = <<>>
    /\ exported' = <<>>
    /\ UNCHANGED <<categories_data, enhance_raised, icon_map, icons_cache, batches>>
    /\ UNCHANGED not_llm_vars

\* the parser's enhancement returns r, plans being the LLM side of its calls
Enhanced(r, plans) ==
    /\ enhanced' = r.enhanced
    /\ enhance_raised' = r.raised
    /\ exported' = Exported(icons_cache, r)
    /\ icons_cache' = CacheAfter(icons_cache, r)
    /\ categories_data' = r.cd.food_categories
    /\ icon_map' = r.cd.icon_map
    /\ batch_returns' = r.calls
    /\ llm_calls' = plans
    /\ llm_pc' = "enhanced"
    /\ batches' = batches + 1
    /\ UNCHANGED <<parser, offers>>
    /\ UNCHANGED not_llm_vars

\* the files the extractor of the parser reads and writes
Stores == [food_categories |-> categories_data, icon_map |-> icon_map]

BaseEnhanced(plan) ==
    Enhanced(Base_enhance_offers_with_food_info(offers, Stores, plan), <<plan>>)

\* BaseParser.enhance_offers_with_food_info, the batch prompt answered
EnhanceBase ==
    /\ llm_pc = "scraped"
    /\ parser = "base"
    /\ \E plan \in BatchPlans : BaseEnhanced(plan)

\* BaseParser.enhance_offers_with_food_info, the offers submitted one by one
EnhanceBaseIndividually ==
    /\ llm_pc = "scraped"
    /\ parser = "base"
    /\ offers # <<>>
    /\ \E plan \in FallbackPlans(Len(offers)) : BaseEnhanced(plan)

DominosPlans(plan) ==
    [i \in 1..Len(offers) |-> IF _is_trio_offer(offers[i]) THEN NoPlan ELSE plan]

DominosEnhanced(plan) ==
    Enhanced(Dominos_enhance_offers_with_food_info(
                offers, Stores, DominosPlans(plan),
                [raised |-> FALSE, enhanced |-> <<>>, cd |-> Stores,
                 calls |-> <<>>]),
             DominosPlans(plan))

\* DominosParser.enhance_offers_with_food_info, the batch prompt answered
EnhanceDominos ==
    /\ llm_pc = "scraped"
    /\ parser = "dominos"
    /\ \E plan \in BatchPlans : DominosEnhanced(plan)

\* DominosParser.enhance_offers_with_food_info, the offer submitted on its own
EnhanceDominosIndividually ==
    /\ llm_pc = "scraped"
    /\ parser = "dominos"
    /\ \E i \in 1..Len(offers) : ~ _is_trio_offer(offers[i])
    /\ \E plan \in FallbackPlans(1) : DominosEnhanced(plan)

LlmNext ==
    \/ ScrapeOffersBase
    \/ ScrapeOffersDominos
    \/ EnhanceBase
    \/ EnhanceBaseIndividually
    \/ EnhanceDominos
    \/ EnhanceDominosIndividually

\* ----------------------------------------------------- vocabulary store
\* the parsers _initialize_parsers constructs; 0 is the AIParser that
\* _get_parser_for_restaurant constructs for a restaurant without a parser
ConfiguredParsers == 1..MaxParsers
DefaultParser == 0

\* the entries of the new_categories lists the LLM proposes: a new type, a
\* second proposal for it, a name the vocabulary holds, an entry without its
\* category
NewCategories ==
    {[name |-> "wrap", category |-> "appetizer", description |-> "wraps"],
     [name |-> "wrap", category |-> "side", description |-> "wrap"],
     [name |-> "pizza", category |-> "side", description |-> "pizza slices"],
     [name |-> "bowl", description |-> "bowls"]}

NewCategoryLists == SeqsUpTo(NewCategories, MaxNewCategories) \ {<<>>}

NoUpdate ==
    [extractor |-> -1, new_categories |-> <<>>, before |-> LoadedCategories,
     after |-> LoadedCategories, raised |-> FALSE, saved |-> FALSE]

VocInit ==
    /\ voc_pc = "start"
    /\ voc_file = LoadedCategories
    /\ voc_mem = [i \in {} |-> LoadedCategories]
    /\ voc_written = DOMAIN LoadedCategories
    /\ voc_last = NoUpdate

VocIdle ==
    /\ voc_pc = "off"
    /\ voc_file = LoadedCategories
    /\ voc_mem = [i \in {} |-> LoadedCategories]
    /\ voc_written = DOMAIN LoadedCategories
    /\ voc_last = NoUpdate

\* FastfoodScraper._initialize_parsers: every parser's __init__ builds an
\* LLMFoodExtractor, whose __init__ loads the file
InitializeParsers ==
    /\ voc_pc = "start"
    /\ voc_pc' = "run"
    /\ voc_mem' = [i \in ConfiguredParsers |-> voc_file]
    /\ UNCHANGED <<voc_file, voc_written, voc_last>>
    /\ UNCHANGED not_voc_vars

\* FastfoodScraper._get_parser_for_restaurant: return AIParser() for a
\* restaurant without a configured parser; its extractor loads the file
GetDefaultParser ==
    /\ voc_pc = "run"
    /\ voc_mem' = (DefaultParser :> voc_file) @@ voc_mem
    /\ UNCHANGED <<voc_pc, voc_file, voc_written, voc_last>>
    /\ UNCHANGED not_voc_vars

\* extractor i ran _update_categories(new_categories) and came to u; the file
\* is written by _save_categories when the loop did not raise and saved holds
Updated(i, new_categories, u, saved) ==
    /\ voc_mem' = [voc_mem EXCEPT ![i] = u.cd]
    /\ voc_file' = IF ~ u.raised /\ saved THEN u.cd ELSE voc_file
    /\ voc_written' = voc_written \cup
                        (IF ~ u.raised /\ saved THEN DOMAIN u.cd ELSE {})
    /\ voc_last' = [extractor |-> i, new_categories |-> new_categories,
                    before |-> voc_mem[i], after |-> u.cd, raised |-> u.raised,
                    saved |-> ~ u.raised /\ saved]
    /\ UNCHANGED voc_pc
    /\ UNCHANGED not_voc_vars

\* LLMFoodExtractor._update_categories of one extractor, the file written
UpdateCategories ==
    /\ voc_pc = "run"
    /\ \E i \in DOMAIN voc_mem, nc \in NewCategoryLists :
          Updated(i, nc, _update_categories(voc_mem[i], nc), TRUE)

\* LLMFoodExtractor._update_categories, _save_categories failing to open the
\* file (it logs the error and returns)
UpdateCategoriesSaveFails ==
    /\ voc_pc = "run"
    /\ \E i \in DOMAIN voc_mem, nc \in NewCategoryLists :
          /\ ~ _update_categories(voc_mem[i], nc).raised
          /\ Updated(i, nc, _update_categories(voc_mem[i], nc), FALSE)

VocNext ==
    \/ InitializeParsers
    \/ GetDefaultParser
    \/ UpdateCategories
    \/ UpdateCategoriesSaveFails

\* ------------------------------------------- AI parser: price extraction
\* a text is a sequence of characters; the characters of the price texts
Digit == {"0", "1", "2", "3", "4", "5", "6", "7", "8", "9"}

DigitValue(c) ==
    CASE c = "0" -> 0 [] c = "1" -> 1 [] c = "2" -> 2 [] c = "3" -> 3
      [] c = "4" -> 4 [] c = "5" -> 5 [] c = "6" -> 6 [] c = "7" -> 7
      [] c = "8" -> 8 [] c = "9" -> 9

WhiteSpace == {" "}

\* the pieces the price texts are put together from: the currency word, a
\* space, a period, a word, and numbers below, at, inside and above the
\* bounds of the price window, with and without separators
Pieces ==
    {<<"k", "r">>, <<" ">>, <<".">>, <<"x">>,
     <<"9", "9">>, <<"4", "9", "9">>, <<"5", "0", "0">>,
     <<"2", ".", "9", "9", "0">>, <<"1", ",", "2", "9", "0">>,
     <<"1", "2", ".", "5", "0">>,
     <<"1", "5", "0", "0", "0">>, <<"1", "5", "0", "0", "1">>}

RECURSIVE Concat(_)
Concat(ps) == IF ps = <<>> THEN <<>> ELSE Head(ps) \o Concat(Tail(ps))

\* the texts offer_data.get('offer_price', '') can be: the empty text and the
\* concatenations of pieces
PriceTexts == {Concat(ps) : ps \in SeqsUpTo(Pieces, MaxPieces)}

\* the position after the longest run of characters of the class from i on
RECURSIVE RunEnd(_, _, _)
RunEnd(s, i, class) ==
    IF i <= Len(s) /\ s[i] \in class THEN RunEnd(s, i + 1, class) ELSE i

\* str.strip()
RECURSIVE lstrip(_)
lstrip(s) == IF s # <<>> /\ Head(s) \in WhiteSpace THEN lstrip(Tail(s)) ELSE s

RECURSIVE rstrip(_)
rstrip(s) ==
    IF s # <<>> /\ s[Len(s)] \in WhiteSpace THEN rstrip(SubSeq(s, 1, Len(s) - 1)) ELSE s

strip(s) == rstrip(lstrip(s))

Least(S) == CHOOSE i \in S : \A j \in S : i <= j

\* "kr" at position i
KrAt(s, i) == i + 1 <= Len(s) /\ s[i] = "k" /\ s[i + 1] = "r"

\* the group of the leftmost match that starts in starts and whose group is
\* s[from[i] .. to[i] - 1]; None without a match
LeftmostGroup(s, starts, from, to) ==
    IF starts = {} THEN None
    ELSE Some(SubSeq(s, from[Least(starts)], to[Least(starts)] - 1))

\* re.search(r'kr\s*([class]+)', s): the group
AfterKr(s, class) ==
    LeftmostGroup(s,
        {i \in 1..Len(s) :
            /\ KrAt(s, i)
            /\ RunEnd(s, RunEnd(s, i + 2, WhiteSpace), class) > RunEnd(s, i + 2, WhiteSpace)},
        [i \in 1..Len(s) |-> RunEnd(s, i + 2, WhiteSpace)],
        [i \in 1..Len(s) |-> RunEnd(s, RunEnd(s, i + 2, WhiteSpace), class)])

\* re.search(r'([class]+)\s*kr', s): the group (what follows a shorter group
\* is a character of the class, so the group is the whole run)
BeforeKr(s, class) ==
    LeftmostGroup(s,
        {i \in 1..Len(s) :
            /\ s[i] \in class
            /\ KrAt(s, RunEnd(s, RunEnd(s, i, class), WhiteSpace))},
        [i \in 1..Len(s) |-> i],
        [i \in 1..Len(s) |-> RunEnd(s, i, class)])

\* the position after (?:[.,]\d+)* from i on
RECURSIVE GroupsEnd(_, _)
GroupsEnd(s, i) ==
    IF i + 1 <= Len(s) /\ s[i] \in {".", ","} /\ s[i + 1] \in Digit
    THEN GroupsEnd(s, RunEnd(s, i + 1, Digit))
    ELSE i

\* re.search(r'kr\s*(\d+(?:[.,]\d+)*)', s): the group
AfterKrGrouped(s) ==
    LeftmostGroup(s,
        {i \in 1..Len(s) :
            /\ KrAt(s, i)
            /\ RunEnd(s, RunEnd(s, i + 2, WhiteSpace), Digit) > RunEnd(s, i + 2, WhiteSpace)},
        [i \in 1..Len(s) |-> RunEnd(s, i + 2, WhiteSpace)],
        [i \in 1..Len(s) |-> GroupsEnd(s, RunEnd(s, RunEnd(s, i + 2, WhiteSpace), Digit))])

\* \.\d{3} at position i
PeriodAndThree(s, i) ==
    /\ i + 3 <= Len(s)
    /\ s[i] = "."
    /\ \A j \in (i + 1)..(i + 3) : s[j] \in Digit

\* re.search(r'(\d{1,2}\.\d{3})', s): the group, two leading digits tried first
European(s) ==
    LeftmostGroup(s,
        {i \in 1..Len(s) :
            /\ s[i] \in Digit
            /\ \/ PeriodAndThree(s, i + 1)
               \/ i + 1 <= Len(s) /\ s[i + 1] \in Digit /\ PeriodAndThree(s, i + 2)},
        [i \in 1..Len(s) |-> i],
        [i \in 1..Len(s) |-> IF i + 1 <= Len(s) /\ s[i + 1] \in Digit /\ PeriodAndThree(s, i + 2)
                   THEN i + 6 ELSE i + 5])

\* re.search(r'(\d{3,5})', s): the group
ThreeToFive(s) ==
    LeftmostGroup(s,
        {i \in 1..Len(s) : RunEnd(s, i, Digit) >= i + 3},
        [i \in 1..Len(s) |-> i],
        [i \in 1..Len(s) |-> IF RunEnd(s, i, Digit) > i + 5 THEN i + 5 ELSE RunEnd(s, i, Digit)])

\* the nine patterns of _extract_price_kr, in its order
NumPatterns == 9

search(k, s) ==
    CASE k = 1 -> AfterKr(s, Digit \cup {"."})
      [] k = 2 -> BeforeKr(s, Digit \cup {"."})
      [] k = 3 -> AfterKr(s, Digit \cup {","})
      [] k = 4 -> BeforeKr(s, Digit \cup {","})
      [] k = 5 -> AfterKr(s, Digit)
      [] k = 6 -> BeforeKr(s, Digit)
      [] k = 7 -> AfterKrGrouped(s)
      [] k = 8 -> European(s)
      [] k = 9 -> ThreeToFive(s)

\* the text without the character c: str.replace(c, '')
Without(s, c) == SelectSeq(s, LAMBDA x : x # c)

\* price_str.split('.')[-1]
RECURSIVE LastPart(_)
LastPart(s) ==
    IF s = <<>> \/ s[Len(s)] = "." THEN <<>>
    ELSE LastPart(SubSeq(s, 1, Len(s) - 1)) \o <<s[Len(s)]>>

\* the separators of the matched text taken out
WithoutSeparators(price_str) ==
    IF "." \in Range(price_str)
    THEN IF Len(LastPart(price_str)) = 3 THEN Without(price_str, ".")
         ELSE IF Len(LastPart(price_str)) = 2 THEN Without(price_str, ".") \o <<"0">>
         ELSE price_str
    ELSE Without(price_str, ",")

\* the value every number of more than six digits stands for: int() has no
\* upper bound, and only the comparison with the price window reads it
Huge == 1000000

RECURSIVE ValueOf(_)
ValueOf(ds) ==
    IF ds = <<>> THEN 0 ELSE 10 * ValueOf(SubSeq(ds, 1, Len(ds) - 1)) + DigitValue(ds[Len(ds)])

RECURSIVE WithoutLeadingZeros(_)
WithoutLeadingZeros(ds) ==
    IF Len(ds) > 1 /\ Head(ds) = "0" THEN WithoutLeadingZeros(Tail(ds)) ELSE ds

\* int(price_str): None for the ValueError
int(price_str) ==
    IF price_str = <<>> \/ ~(Range(price_str) \subseteq Digit) THEN None
    ELSE IF Len(WithoutLeadingZeros(price_str)) > 6 THEN Some(Huge)
    ELSE Some(ValueOf(WithoutLeadingZeros(price_str)))

\* the price window left open at both ends
Unchecked(n) == TRUE

\* 500 <= price_int <= 15000
InWindow(n) == 500 <= n /\ n <= 15000

\* the price of a matched text: None when int() raises or the value is
\* outside the window
PriceOfMatch(m) ==
    IF m = None THEN None
    ELSE IF int(WithoutSeparators(m[1])) = None THEN None
    ELSE IF InWindow(int(WithoutSeparators(m[1]))[1]) THEN int(WithoutSeparators(m[1]))
    ELSE None

\* for pattern in patterns: the first pattern, from the k-th on, whose match
\* converts to a price inside the window
RECURSIVE FromPattern(_, _)
FromPattern(s, k) ==
    IF k > NumPatterns THEN None
    ELSE IF PriceOfMatch(search(k, s)) # None THEN PriceOfMatch(search(k, s))
    ELSE FromPattern(s, k + 1)

\* re.findall(r'\d+', s) from position i on: the first number inside the window
RECURSIVE FirstNumberInWindow(_, _)
FirstNumberInWindow(s, i) ==
    IF i > Len(s) THEN None
    ELSE IF s[i] \notin Digit THEN FirstNumberInWindow(s, i + 1)
    ELSE IF InWindow(int(SubSeq(s, i, RunEnd(s, i, Digit) - 1))[1])
         THEN int(SubSeq(s, i, RunEnd(s, i, Digit) - 1))
    ELSE FirstNumberInWindow(s, RunEnd(s, i, Digit))

\* the patterns on the stripped text, then the scan of its numbers
Extracted(s) ==
    IF FromPattern(s, 1) # None THEN FromPattern(s, 1) ELSE FirstNumberInWindow(s, 1)

\* AIParser._extract_price_kr
_extract_price_kr(text) ==
    IF text = <<>> THEN None ELSE Extracted(strip(text))

PxInit ==
    /\ px_pc = "text"
    /\ price_text \in PriceTexts
    /\ price_kr = None

PxIdle ==
    /\ px_pc = "off"
    /\ price_text = <<>>
    /\ price_kr = None

\* _extract_price_kr(price_text)
ExtractPrice ==
    /\ px_pc = "text"
    /\ px_pc' = "extracted"
    /\ price_kr' = _extract_price_kr(price_text)
    /\ UNCHANGED price_text
    /\ UNCHANGED not_px_vars

PxNext == ExtractPrice

\* ------------------------------------------------- AI parser: the offers
\* config.AI_MODEL and the name ai_parser imports as AI_MODEL_FALLBACK
AI_MODEL == "gpt-4o-mini"
AI_MODEL_FALLBACK == "AI_MODEL_FALLBACK"

\* offer_name of a candidate: the key missing (or null), the empty text, a name
CandidateNames == {None, Some(""), Some("Tilbod")}

\* offer_price of a candidate: the key missing, "2.990 kr", "99 kr", "20.000 kr"
CandidatePrices ==
    {None,
     Some(<<"2", ".", "9", "9", "0", " ", "k", "r">>),
     Some(<<"9", "9", " ", "k", "r">>),
     Some(<<"2", "0", ".", "0", "0", "0", " ", "k", "r">>)}

\* the entries of the JSON array of a reply: objects, and a bare text
Candidates ==
    {[kind |-> "object", offer_name |-> n, offer_price |-> p] :
        n \in CandidateNames, p \in CandidatePrices}
    \cup {[kind |-> "text"]}

\* what a completion call returns: nothing, blanks, an empty code fence, a text
\* that is no JSON, a JSON object, a JSON array (inside a code fence or not)
Responses ==
    {[kind |-> k] : k \in {"none", "blank", "fence", "garbage", "object"}}
    \cup {[kind |-> "array", fenced |-> f, data |-> d] :
            f \in BOOLEAN, d \in SeqsUpTo(Candidates, MaxCandidates)}

Raises == [kind |-> "raises"]
NotCalled == [kind |-> "not called"]

\* the calls of a third attempt after both models raised
CompletionRetrying(primary, fallback) ==
    IF primary # Raises
    THEN [calls |-> <<[model |-> AI_MODEL, raised |-> FALSE]>>, response |-> Some(primary)]
    ELSE IF fallback # Raises
    THEN [calls |-> <<[model |-> AI_MODEL, raised |-> TRUE],
                      [model |-> AI_MODEL_FALLBACK, raised |-> FALSE]>>,
          response |-> Some(fallback)]
    ELSE [calls |-> <<[model |-> AI_MODEL, raised |-> TRUE],
                      [model |-> AI_MODEL_FALLBACK, raised |-> TRUE],
                      [model |-> AI_MODEL, raised |-> TRUE]>>,
          response |-> None]

\* the completion calls of _extract_offers_with_ai: the primary model, the
\* fallback model after the primary raised, no response after both raised
Completion(primary, fallback) ==
    IF primary # Raises
    THEN [calls |-> <<[model |-> AI_MODEL, raised |-> FALSE]>>, response |-> Some(primary)]
    ELSE IF fallback # Raises
    THEN [calls |-> <<[model |-> AI_MODEL, raised |-> TRUE],
                      [model |-> AI_MODEL_FALLBACK, raised |-> FALSE]>>,
          response |-> Some(fallback)]
    ELSE [calls |-> <<[model |-> AI_MODEL, raised |-> TRUE],
                      [model |-> AI_MODEL_FALLBACK, raised |-> TRUE]>>,
          response |-> None]

\* the response stripped, the code fence taken off, parsed by json.loads: None
\* for the empty response, the response empty after cleaning and the
\* JSONDecodeError
Loaded(response) ==
    IF response.kind \in {"none", "blank", "fence", "garbage"} THEN None
    ELSE IF response.kind = "object" THEN Some([kind |-> "object"])
    ELSE Some([kind |-> "array", data |-> response.data])

\* the offer built from a candidate
AiOffer(offer_data) ==
    [offer_name  |-> offer_data.offer_name,
     description |-> None,
     price_kr    |-> IF offer_data.offer_price = None THEN _extract_price_kr(<<>>)
                     ELSE _extract_price_kr(offer_data.offer_price[1]),
     pickup_delivery |-> None, suits_people |-> None,
     available_weekdays |-> None, available_hours |-> None,
     availability_text |-> None]

\* if offer['offer_name']
HasName(offer) == offer.offer_name # None /\ offer.offer_name[1] # ""

\* for offer_data in offers_data: the offers with a name
RECURSIVE Converted(_)
Converted(offers_data) ==
    IF offers_data = <<>> THEN <<>>
    ELSE (IF HasName(AiOffer(Head(offers_data))) THEN <<AiOffer(Head(offers_data))>> ELSE <<>>)
         \o Converted(Tail(offers_data))

\* the offers of the loaded JSON: offer_data.get raises on an entry that is
\* no object, as does the loop over the keys of a JSON object, and the outer
\* except returns the empty list
OffersOf(loaded) ==
    IF loaded = None THEN <<>>
    ELSE IF loaded[1].kind = "object" THEN <<>>
    ELSE IF \E i \in 1..Len(loaded[1].data) : loaded[1].data[i].kind # "object" THEN <<>>
    ELSE Converted(loaded[1].data)

\* the result of the extraction with the completion calls c
Extraction(c) ==
    [calls    |-> c.calls,
     response |-> c.response,
     offers   |-> IF c.response = None THEN <<>> ELSE OffersOf(Loaded(c.response[1]))]

\* AIParser._extract_offers_with_ai
_extract_offers_with_ai(primary, fallback) == Extraction(Completion(primary, fallback))

AiInit ==
    /\ ai_pc = "page"
    /\ ai_markdown \in BOOLEAN
    /\ ai_calls = <<>>
    /\ ai_response = None
    /\ ai_offers = <<>>

AiIdle ==
    /\ ai_pc = "off"
    /\ ai_markdown = FALSE
    /\ ai_calls = <<>>
    /\ ai_response = None
    /\ ai_offers = <<>>

\* what scrape_offers does after the extraction e
AiScraped(e) ==
    /\ ai_calls' = e.calls
    /\ ai_response' = e.response
    /\ ai_offers' = e.offers

\* AIParser.scrape_offers: no offers without content, else the extraction;
\* the fallback model answers or raises only when it is called
AiScrapeOffers ==
    /\ ai_pc = "page"
    /\ ai_pc' = "scraped"
    /\ IF ~ai_markdown
       THEN UNCHANGED <<ai_calls, ai_response, ai_offers>>
       ELSE \E primary \in Responses \cup {Raises} :
                \E fallback \in (IF primary = Raises THEN Responses \cup {Raises}
                                 ELSE {NotCalled}) :
                    AiScraped(_extract_offers_with_ai(primary, fallback))
    /\ UNCHANGED ai_markdown
    /\ UNCHANGED not_ai_vars

AiNext == AiScrapeOffers

\* ------------------------------------------------------------ KFC parser
\* a product element: whether _extract_offer_data finds a name in it
Elements == {[offer_name |-> n] : n \in {None, Some("Tilbod")}}

\* the offers pages: one whose fetch raises, and the pages with the product
\* elements of the offer sections and those the search by content finds
Pages ==
    {[raises |-> TRUE, sections |-> <<>>, by_content |-> <<>>]}
    \cup {[raises |-> FALSE, sections |-> e, by_content |-> c] :
            e \in SeqsUpTo(Elements, MaxElements),
            c \in SeqsUpTo(Elements, MaxElements)}

\* potential_offers[:30]
ContentLimit == 30

\* KFCParser._find_offers_by_content
_find_offers_by_content(soup) == Truncated(soup.by_content, ContentLimit)

\* the offer elements: those of the offer sections, those found by content when
\* the sections have none
offer_elements(soup) ==
    IF soup.sections # <<>> THEN soup.sections ELSE _find_offers_by_content(soup)

\* the strategies run on the page
Strategies(soup) ==
    IF soup.raises THEN <<>>
    ELSE IF soup.sections # <<>> THEN <<"sections">>
    ELSE <<"sections", "content">>

\* KFCParser._extract_offer_data, its name
_extract_offer_data(element) == [offer_name |-> element.offer_name]

\* if offer and offer.get('offer_name'): offers.append(offer)
RECURSIVE NamedOffers(_)
NamedOffers(elements) ==
    IF elements = <<>> THEN <<>>
    ELSE (IF _extract_offer_data(Head(elements)).offer_name # None
          THEN <<_extract_offer_data(Head(elements))>> ELSE <<>>)
         \o NamedOffers(Tail(elements))

\* KFCParser.scrape_offers: the empty list when fetch_page raises
KFC_scrape_offers(soup) ==
    IF soup.raises THEN <<>> ELSE NamedOffers(offer_elements(soup))

KfcInit ==
    /\ kfc_pc = "page"
    /\ kfc_page \in Pages
    /\ kfc_strategies = <<>>
    /\ kfc_offers = <<>>
    /\ kfc_failed = 0

KfcIdle ==
    /\ kfc_pc = "off"
    /\ kfc_page = [raises |-> FALSE, sections |-> <<>>, by_content |-> <<>>]
    /\ kfc_strategies = <<>>
    /\ kfc_offers = <<>>
    /\ kfc_failed = 0

\* _scrape_restaurant with the KFCParser: the offers scraped, the restaurant
\* counted as failed and left when there are none
ScrapeRestaurantKFC ==
    /\ kfc_pc = "page"
    /\ kfc_pc' = "handled"
    /\ kfc_strategies' = Strategies(kfc_page)
    /\ kfc_offers' = KFC_scrape_offers(kfc_page)
    /\ kfc_failed' = IF KFC_scrape_offers(kfc_page) = <<>> THEN kfc_failed + 1 ELSE kfc_failed
    /\ UNCHANGED kfc_page
    /\ UNCHANGED not_kfc_vars

KfcNext == ScrapeRestaurantKFC

\* --------------------------------------------------- icon mapping alone
\* the food items of the offers given to enhance_offer: one per rule of the
\* tags, a new type, a drink that is a soda and one that is not
IconItems ==
    {[name |-> "kjuklingur", type |-> "chicken", category |-> "main"],
     [name |-> "borgari", type |-> "beef", category |-> "main"],
     [name |-> "pizza", type |-> "pizza", category |-> "main"],
     [name |-> "franskar", type |-> "fries", category |-> "side"],
     [name |-> "sub", type |-> "sandwich", category |-> "main"],
     [name |-> "vefja", type |-> "wrap", category |-> "main"],
     [name |-> "gosi", type |-> "soda", category |-> "drink"],
     [name |-> "vatn", type |-> "water", category |-> "drink"]}

\* an enhanced offer as enhance_offers_with_food_info builds it
IconOfferOf(food_items) ==
    [offer_name    |-> "Tilbod",
     food_items    |-> food_items,
     main_items    |-> ItemsOfCategory(food_items, "main"),
     side_items    |-> ItemsOfCategory(food_items, "side"),
     drink_items   |-> ItemsOfCategory(food_items, "drink"),
     dessert_items |-> ItemsOfCategory(food_items, "dessert")]

IconOffers == {IconOfferOf(f) : f \in SeqsUpTo(IconItems, MaxIconItems)}

\* the cache: no file, the file as the run finds it, the file with the blank
\* entry of a new category
IconTables ==
    {<<>>, food_icon_mapping,
     SyncIconMap(food_icon_mapping, <<[name |-> "wrap"]>>)}

NoOffer == [offer_name |-> ""]

IconInit ==
    /\ icon_pc = "offer"
    /\ icon_table \in IconTables
    /\ icon_offer \in IconOffers
    /\ icon_once = NoOffer
    /\ icon_twice = NoOffer

IconIdle ==
    /\ icon_pc = "off"
    /\ icon_table = <<>>
    /\ icon_offer = NoOffer
    /\ icon_once = NoOffer
    /\ icon_twice = NoOffer

\* IconMapping.enhance_offer(offer)
EnhanceOffer ==
    /\ icon_pc = "offer"
    /\ icon_pc' = "once"
    /\ icon_once' = enhance_offer(icon_table, icon_offer)
    /\ UNCHANGED <<icon_table, icon_offer, icon_twice>>
    /\ UNCHANGED not_icon_vars

\* IconMapping.enhance_offer on its own result
EnhanceOfferAgain ==
    /\ icon_pc = "once"
    /\ icon_pc' = "twice"
    /\ icon_twice' = enhance_offer(icon_table, icon_once)
    /\ UNCHANGED <<icon_table, icon_offer, icon_once>>
    /\ UNCHANGED not_icon_vars

IconNext ==
    \/ EnhanceOffer
    \/ EnhanceOfferAgain



\* --------------------------------------------- regex extractor: quantities
\* the digit runs a phrase may hold, with int() of each
Numerals == [t \in {"2", "12"} |-> IF t = "2" THEN 2 ELSE 12]

\* icelandic_numbers in dict order (three of its entries)
icelandic_numbers ==
    <<[word |-> "tveir", value |-> 2], [word |-> "tvaer", value |-> 2],
      [word |-> "thrjar", value |-> 3]>>

\* the tokens of a phrase
QtyTokens == {"2", "12", "tommu", "pizza", "tvaer", "thrjar"}

\* the phrases _extract_food_items hands over for the term "pizza": the term
\* is in the phrase
QtyPhrases == {p \in SeqsUpTo(QtyTokens, MaxTokens) : "pizza" \in Range(p)}

\* re.search(r'(\d+)\s*.*?' + re.escape(term), phrase): the start of the
\* leftmost match is the first digit run with the term somewhere after it
NumberBefore(phrase, term) ==
    {i \in 1..Len(phrase) :
        /\ phrase[i] \in DOMAIN Numerals
        /\ \E j \in (i + 1)..Len(phrase) : phrase[j] = term
        /\ \A k \in 1..(i - 1) : phrase[k] \notin DOMAIN Numerals}

\* the entries of icelandic_numbers whose word is in the phrase
NumberWordsIn(phrase) ==
    SelectSeq(icelandic_numbers, LAMBDA e : e.word \in Range(phrase))

\* FoodExtractor._extract_quantity(phrase, term)
_extract_quantity(phrase, term) ==
    IF NumberBefore(phrase, term) # {}
    THEN Numerals[phrase[CHOOSE i \in NumberBefore(phrase, term) : TRUE]]
    ELSE IF NumberWordsIn(phrase) # <<>> THEN NumberWordsIn(phrase)[1].value
    ELSE 1

\* re.search(size_patterns['inches'], phrase): the first digit run followed by
\* "tommu"
InchesOf(phrase) ==
    IF \E i \in 1..(Len(phrase) - 1) :
          phrase[i] \in DOMAIN Numerals /\ phrase[i + 1] = "tommu"
    THEN Some(Numerals[phrase[CHOOSE i \in 1..(Len(phrase) - 1) :
                                /\ phrase[i] \in DOMAIN Numerals /\ phrase[i + 1] = "tommu"
                                /\ \A k \in 1..(i - 1) :
                                      ~ (phrase[k] \in DOMAIN Numerals
                                            /\ phrase[k + 1] = "tommu")]])
    ELSE None

NoItem == [type |-> NoValue]

QtyInit ==
    /\ qty_pc = "phrase"
    /\ qty_phrase \in QtyPhrases
    /\ qty_item = NoItem
    /\ qty_inches = None

QtyIdle ==
    /\ qty_pc = "off"
    /\ qty_phrase = <<>>
    /\ qty_item = NoItem
    /\ qty_inches = None

\* _extract_item_details(phrase, 'pizza', 'pizza', config)
ExtractItemDetails ==
    /\ qty_pc = "phrase"
    /\ qty_pc' = "done"
    /\ qty_item' = _extract_item_details(Range(qty_phrase) \cap PhraseWords, "pizza",
                                         _extract_quantity(qty_phrase, "pizza"))
    /\ qty_inches' = InchesOf(qty_phrase)
    /\ UNCHANGED qty_phrase
    /\ UNCHANGED not_qty_vars

QtyNext == ExtractItemDetails


\* ------------------------------------------------ field extractors: weekdays
\* weekday_patterns in dict order, each day with some of its word-bounded
\* forms, and the day's entry of day_name_mapping
weekday_patterns ==
    <<[day |-> "manudagur", forms |-> {"manudagur", "manudag", "manudegi", "manudaga"}],
      [day |-> "thridjudagur", forms |-> {"thridjudagur", "thridjudag", "thridjudaga"}],
      [day |-> "midvikudagur", forms |-> {"midvikudagur", "midvikudag", "midvikudaga"}],
      [day |-> "fimmtudagur", forms |-> {"fimmtudagur", "fimmtudag", "fimmtudaga"}],
      [day |-> "fostudagur", forms |-> {"fostudagur", "fostudag", "fostudegi", "fostudaga"}],
      [day |-> "laugardagur", forms |-> {"laugardagur", "laugardag", "laugardegi"}],
      [day |-> "sunnudagur", forms |-> {"sunnudagur", "sunnudag", "sunnudegi"}]>>

\* special_day_patterns in dict order: the word sequences of each group and
\* the days the group adds
special_day_patterns ==
    <<[terms |-> {<<"virka", "daga">>, <<"virkir", "dagar">>, <<"virkum", "dogum">>,
                  <<"vikudaga">>, <<"vegna", "vikudaga">>},
       days |-> <<"manudagur", "thridjudagur", "midvikudagur", "fimmtudagur",
                  "fostudagur">>],
      [terms |-> {<<"helgar">>, <<"helgi">>, <<"um", "helgar">>, <<"a", "helgum">>},
       days |-> <<"laugardagur", "sunnudagur">>]>>

\* the words of a text
WdWords == {"Manudaga", "fostudegi", "laugardagur", "virka", "daga", "helgar", "tilbod"}

WdTexts == SeqsUpTo(WdWords, MaxWords)

\* text.lower()
LowerText(text) == [i \in 1..Len(text) |-> lower(text[i])]

\* re.search of a pattern of whole words: the words stand in the text, one
\* after the other
OccursIn(term, text) ==
    \E i \in 0..(Len(text) - Len(term)) :
        \A j \in 1..Len(term) : text[i + j] = term[j]

\* appending every day, found before or not
AddAll(found_weekdays, days) == found_weekdays \o days

\* for day in days: if day not in found_weekdays: found_weekdays.append(day)
RECURSIVE AddNew(_, _)
AddNew(found_weekdays, days) ==
    IF days = <<>> THEN found_weekdays
    ELSE AddNew(IF Head(days) \in Range(found_weekdays) THEN found_weekdays
                ELSE Append(found_weekdays, Head(days)),
                Tail(days))

\* the loop over weekday_patterns from entry k on
RECURSIVE ScanDays(_, _, _)
ScanDays(text_lower, k, found_weekdays) ==
    IF k > Len(weekday_patterns) THEN found_weekdays
    ELSE ScanDays(text_lower, k + 1,
                  IF \E form \in weekday_patterns[k].forms : OccursIn(<<form>>, text_lower)
                  THEN AddNew(found_weekdays, <<weekday_patterns[k].day>>)
                  ELSE found_weekdays)

\* the loop over special_day_patterns from entry k on
RECURSIVE ScanGroups(_, _, _)
ScanGroups(text_lower, k, found_weekdays) ==
    IF k > Len(special_day_patterns) THEN found_weekdays
    ELSE ScanGroups(text_lower, k + 1,
                    IF \E term \in special_day_patterns[k].terms : OccursIn(term, text_lower)
                    THEN AddNew(found_weekdays, special_day_patterns[k].days)
                    ELSE found_weekdays)

\* BaseParser.extract_weekdays(text): the tokens joined by commas, <<>> for None
extract_weekdays(text) ==
    IF text = <<>> THEN <<>>
    ELSE ScanGroups(LowerText(text), 1, ScanDays(LowerText(text), 1, <<>>))

WdInit ==
    /\ wd_pc = "text"
    /\ wd_text \in WdTexts
    /\ wd_found = <<>>

WdIdle ==
    /\ wd_pc = "off"
    /\ wd_text = <<>>
    /\ wd_found = <<>>

\* extract_weekdays(text)
ExtractWeekdays ==
    /\ wd_pc = "text"
    /\ wd_pc' = "done"
    /\ wd_found' = extract_weekdays(wd_text)
    /\ UNCHANGED wd_text
    /\ UNCHANGED not_wd_vars

WdNext == ExtractWeekdays


\* --------------------------------------------------- field extractors: hours
\* a text is a list of words and time expressions; an expression has the form
\* of one of the time patterns and its four digit groups
\*   colon     17:00-21:00          dot        7.00-11.00
\*   fra_til   fra 11:00 til 15:00  milli_og   milli 11:00 og 15:00
\*   kl        kl. 17:00-21:00
Word(w) == [kind |-> "word", text |-> w]

TimeExpr(form, sh, sm, eh, em) == [kind |-> form, sh |-> sh, sm |-> sm, eh |-> eh, em |-> em]

\* time_patterns in list order: the forms each pattern finds (the first finds
\* the range inside a kl expression too)
time_patterns == <<{"colon", "kl"}, {"dot"}, {"fra_til"}, {"milli_og"}, {"kl"}>>

\* str.zfill(2)
zfill(ds) == IF Len(ds) < 2 THEN <<"0">> \o ds ELSE ds

\* f"{start_hour.zfill(2)}:{start_min.zfill(2)}-{end_hour.zfill(2)}:{end_min.zfill(2)}"
time_range(e) == [sh |-> zfill(e.sh), sm |-> zfill(e.sm), eh |-> zfill(e.eh), em |-> zfill(e.em)]

\* a range written out
Hours(sh, eh) ==
    [sh |-> sh, sm |-> <<"0", "0">>, eh |-> eh, em |-> <<"0", "0">>]

\* meal_times in dict order
meal_times ==
    <<[meal |-> "hadegi", time_range |-> Hours(<<"1", "1">>, <<"1", "5">>)],
      [meal |-> "hadegis", time_range |-> Hours(<<"1", "1">>, <<"1", "5">>)],
      [meal |-> "morgun", time_range |-> Hours(<<"0", "7">>, <<"1", "1">>)],
      [meal |-> "kvold", time_range |-> Hours(<<"1", "7">>, <<"2", "2">>)],
      [meal |-> "nott", time_range |-> Hours(<<"2", "2">>, <<"0", "6">>)]>>

\* the words of a text and the meal words each holds as a substring
HrWords == {"Kvoldtilbod", "hadegistilbod", "pizza"}

MealWordsIn(w) ==
    CASE w = "kvoldtilbod" -> {"kvold"}
      [] w = "hadegistilbod" -> {"hadegi", "hadegis"}
      [] OTHER -> {}

\* the time expressions of a text
HrExprs ==
    {TimeExpr("kl", <<"1", "7">>, <<"0", "0">>, <<"2", "1">>, <<"0", "0">>),
     TimeExpr("colon", <<"1", "7">>, <<"0", "0">>, <<"2", "2">>, <<"0", "0">>),
     TimeExpr("dot", <<"7">>, <<"0", "0">>, <<"1", "1">>, <<"0", "0">>),
     TimeExpr("fra_til", <<"1", "1">>, <<"0", "0">>, <<"1", "5">>, <<"0", "0">>)}

HrTexts == SeqsUpTo({Word(w) : w \in HrWords} \cup HrExprs, MaxWords)

\* re.finditer(pattern, text) from position i on: each range not yet found is
\* appended
RECURSIVE ScanMatches(_, _, _, _)
ScanMatches(text, forms, i, found_times) ==
    IF i > Len(text) THEN found_times
    ELSE ScanMatches(text, forms, i + 1,
                     IF text[i].kind \in forms /\ time_range(text[i]) \notin Range(found_times)
                     THEN Append(found_times, time_range(text[i]))
                     ELSE found_times)

\* the loop over time_patterns from pattern k on
RECURSIVE ScanPatterns(_, _, _)
ScanPatterns(text, k, found_times) ==
    IF k > Len(time_patterns) THEN found_times
    ELSE ScanPatterns(text, k + 1, ScanMatches(text, time_patterns[k], 1, found_times))

\* meal in text_lower
MealIn(meal, text) ==
    \E i \in 1..Len(text) :
        text[i].kind = "word" /\ meal \in MealWordsIn(lower(text[i].text))

\* the loop over meal_times from entry k on
RECURSIVE ScanMeals(_, _, _)
ScanMeals(text, k, found_times) ==
    IF k > Len(meal_times) THEN found_times
    ELSE ScanMeals(text, k + 1,
                   IF MealIn(meal_times[k].meal, text)
                        /\ meal_times[k].time_range \notin Range(found_times)
                   THEN Append(found_times, meal_times[k].time_range)
                   ELSE found_times)

\* BaseParser.extract_hours(text): the ranges joined by commas, <<>> for None
extract_hours(text) ==
    IF text = <<>> THEN <<>>
    ELSE ScanMeals(text, 1, ScanPatterns(text, 1, <<>>))

HrInit ==
    /\ hr_pc = "text"
    /\ hr_text \in HrTexts
    /\ hr_found = <<>>

HrIdle ==
    /\ hr_pc = "off"
    /\ hr_text = <<>>
    /\ hr_found = <<>>

\* extract_hours(text)
ExtractHours ==
    /\ hr_pc = "text"
    /\ hr_pc' = "done"
    /\ hr_found' = extract_hours(hr_text)
    /\ UNCHANGED hr_text
    /\ UNCHANGED not_hr_vars

HrNext == ExtractHours

\* ------------------------------------------------------------ persistence
\* the columns of the Offer model an offer dict may carry
db_fields ==
    {"offer_name", "description", "price_kr", "pickup_delivery", "suits_people",
     "available_weekdays", "available_hours", "availability_text", "source_url",
     "restaurant_id"}

\* {key: value for key, value in offer.items() if key in db_fields}
DbOffer(offer) == [key \in DOMAIN offer \cap db_fields |-> offer[key]]

\* prepare_offers_for_database deleting the other keys from the offers passed in
\* instead of building new dicts
PrepareInPlace(enhanced_offers) ==
    [returned |-> [i \in 1..Len(enhanced_offers) |-> DbOffer(enhanced_offers[i])],
     enhanced_offers |-> [i \in 1..Len(enhanced_offers) |-> DbOffer(enhanced_offers[i])]]

\* BaseParser.prepare_offers_for_database: the list returned, and the list
\* passed in as it is after the call
prepare_offers_for_database(enhanced_offers) ==
    [returned |-> [i \in 1..Len(enhanced_offers) |-> DbOffer(enhanced_offers[i])],
     enhanced_offers |-> enhanced_offers]

\* the enhanced offers of a restaurant: scraped core fields, the food info merged
\* in by enhance_offers_with_food_info, and restaurant_name; one offer has no
\* offer_name
DbEnhancedOffers ==
    {Update(Update(core, LLMEmptyFoodInfo), [restaurant_name |-> "Stadur"]) :
        core \in {[offer_name |-> "Tilbod A", description |-> "", price_kr |-> 1990],
                  [offer_name |-> "Tilbod B", description |-> "tveir fyrir einn"],
                  [description |-> "nafnlaust", price_kr |-> 990]}}

DbOfferLists == SeqsUpTo(DbEnhancedOffers, MaxDbOffers)

\* restaurant['offers_page'] of the two restaurants, whose ids are 1 and 2
RestaurantIds == 1..2

offers_url(restaurant_id) ==
    IF restaurant_id = 1 THEN "a.is/tilbod" ELSE "b.is/tilbod"

\* for offer in db_offers: offer['source_url'] = offers_url
WithSourceUrl(offers_data, url) ==
    [i \in 1..Len(offers_data) |-> Update(offers_data[i], [source_url |-> url])]

\* where a database call is made to fail: nowhere, in get_or_create_restaurant,
\* or at the commit
Faults == {"none", "restaurant", "commit"}

\* offer_name is nullable=False: the commit of a row without it raises
NotNullViolated(offer_data) == "offer_name" \notin DOMAIN offer_data

\* Offer(**offer_data): the row, scraped_at defaulting to the time of the run
Row(offer_data, now) == Update(offer_data, [scraped_at |-> now])

\* offer_data['restaurant_id'] = restaurant.id
WithRestaurantId(offers_data, restaurant_id) ==
    [i \in 1..Len(offers_data) |->
        Update(offers_data[i], [restaurant_id |-> restaurant_id])]

\* DatabaseManager.save_offers_batch(offers_data, restaurant, clear_existing=True):
\* the table, offers_data after the call, and whether it raised
save_offers_batch(table, offers_data, restaurant_id, now, fault) ==
    IF fault = "restaurant"
    THEN [table |-> table, offers_data |-> offers_data, raised |-> TRUE]
    ELSE IF fault = "commit" \/ \E i \in 1..Len(offers_data) : NotNullViolated(offers_data[i])
    THEN [table |-> table,
          offers_data |-> WithRestaurantId(offers_data, restaurant_id),
          raised |-> TRUE]
    ELSE [table |-> SelectSeq(table, LAMBDA row : row.restaurant_id # restaurant_id)
                    \o [i \in 1..Len(offers_data) |->
                          Row(Update(offers_data[i], [restaurant_id |-> restaurant_id]), now)],
          offers_data |-> WithRestaurantId(offers_data, restaurant_id),
          raised |-> FALSE]

\* DatabaseManager.save_offer(offer_data, restaurant): the table and whether it
\* raised
save_offer(table, offer_data, restaurant_id, now, fault) ==
    IF fault # "none" \/ NotNullViolated(offer_data)
    THEN [table |-> table, raised |-> TRUE]
    ELSE [table |-> Append(table, Row(Update(offer_data, [restaurant_id |-> restaurant_id]), now)),
          raised |-> FALSE]

\* the fallback loop of _scrape_restaurant over db_offers from offer i on
RECURSIVE SaveIndividually(_, _, _, _, _, _, _)
SaveIndividually(table, offers_data, restaurant_id, now, faults, i, saved_count) ==
    IF i > Len(offers_data)
    THEN [table |-> table, saved_count |-> saved_count]
    ELSE IF save_offer(table, offers_data[i], restaurant_id, now, faults[i]).raised
    THEN SaveIndividually(table, offers_data, restaurant_id, now, faults, i + 1, saved_count)
    ELSE SaveIndividually(save_offer(table, offers_data[i], restaurant_id, now, faults[i]).table,
                          offers_data, restaurant_id, now, faults, i + 1, saved_count + 1)

\* the except branch of the batch save
Fallback(singles, n) ==
    [table |-> singles.table,
     outcome |-> [kind |-> "batch_failed", offers |-> n, singles |-> singles.saved_count]]

\* the try around save_offers_batch, given what the batch save did
SaveOrFallBack(batch, restaurant_id, now, faults) ==
    IF ~batch.raised
    THEN [table |-> batch.table,
          outcome |-> [kind |-> "batch_saved", offers |-> Len(batch.offers_data),
                       singles |-> 0]]
    ELSE Fallback(SaveIndividually(batch.table, batch.offers_data, restaurant_id, now,
                                   faults, 1, 0),
                  Len(batch.offers_data))

\* _scrape_restaurant from the offers check on
SaveOffers(table, prepared, restaurant_id, now, fault, faults) ==
    IF prepared.enhanced_offers = <<>>
    THEN [table |-> table, outcome |-> [kind |-> "no_offers", offers |-> 0, singles |-> 0]]
    ELSE SaveOrFallBack(save_offers_batch(table,
                                          WithSourceUrl(prepared.returned,
                                                        offers_url(restaurant_id)),
                                          restaurant_id, now, fault),
                        restaurant_id, now, faults)

DbInit ==
    /\ db_pc = "run"
    /\ db_table = <<>>
    /\ db_stats = ZeroStats
    /\ db_runs = 0
    /\ db_restaurant = 0
    /\ db_passed = <<>>
    /\ db_enhanced = <<>>
    /\ db_offers = <<>>
    /\ db_outcome = [kind |-> "none", offers |-> 0, singles |-> 0]

DbIdle ==
    /\ db_pc = "off"
    /\ db_table = <<>>
    /\ db_stats = ZeroStats
    /\ db_runs = 0
    /\ db_restaurant = 0
    /\ db_passed = <<>>
    /\ db_enhanced = <<>>
    /\ db_offers = <<>>
    /\ db_outcome = [kind |-> "none", offers |-> 0, singles |-> 0]

Persisted(saved) ==
    /\ db_table' = saved.table
    /\ db_outcome' = saved.outcome
    /\ db_stats' = _scrape_restaurant(db_stats, saved.outcome).stats

Prepared(prepared, restaurant_id, fault, faults) ==
    /\ db_enhanced' = prepared.enhanced_offers
    /\ db_offers' = IF prepared.enhanced_offers = <<>> THEN <<>> ELSE prepared.returned
    /\ Persisted(SaveOffers(db_table, prepared, restaurant_id, db_runs + 1, fault, faults))

\* FastfoodScraper._scrape_restaurant(restaurant) once the offers are enhanced
ScrapeRestaurantSave ==
    /\ db_pc = "run"
    /\ db_runs < MaxDbRuns
    /\ \E restaurant_id \in RestaurantIds, enhanced_offers \in DbOfferLists, fault \in Faults :
        \E faults \in [1..Len(enhanced_offers) -> {"none", "commit"}] :
            /\ db_runs' = db_runs + 1
            /\ db_restaurant' = restaurant_id
            /\ db_passed' = enhanced_offers
            /\ Prepared(prepare_offers_for_database(enhanced_offers), restaurant_id,
                        fault, faults)
    /\ UNCHANGED db_pc
    /\ UNCHANGED not_db_vars

DbNext == ScrapeRestaurantSave

\* ---------------------------------------------------------- specifications
\* the regex extractor on one offer text
InitRegex == RxInit /\ RunIdle /\ LlmIdle /\ VocIdle /\ PxIdle /\ AiIdle /\ KfcIdle /\ IconIdle /\ DbIdle /\ QtyIdle /\ WdIdle /\ HrIdle

SpecRegex == InitRegex /\ [][RxNext]_vars

\* one run of the orchestrator
InitRun == RxIdle /\ RunInit /\ LlmIdle /\ VocIdle /\ PxIdle /\ AiIdle /\ KfcIdle /\ IconIdle /\ DbIdle /\ QtyIdle /\ WdIdle /\ HrIdle

SpecRun == InitRun /\ [][RunNext]_vars

\* the parsers' food enhancement, restaurant after restaurant
InitLLM == RxIdle /\ RunIdle /\ LlmInit /\ VocIdle /\ PxIdle /\ AiIdle /\ KfcIdle /\ IconIdle /\ DbIdle /\ QtyIdle /\ WdIdle /\ HrIdle

SpecLLM == InitLLM /\ [][LlmNext]_vars

\* the vocabulary file and the extractors that load and save it
InitVoc == RxIdle /\ RunIdle /\ LlmIdle /\ VocInit /\ PxIdle /\ AiIdle /\ KfcIdle /\ IconIdle /\ DbIdle /\ QtyIdle /\ WdIdle /\ HrIdle

SpecVoc == InitVoc /\ [][VocNext]_vars

\* _extract_price_kr alone, on every price text
InitPrice == RxIdle /\ RunIdle /\ LlmIdle /\ VocIdle /\ PxInit /\ AiIdle /\ KfcIdle /\ IconIdle /\ DbIdle /\ QtyIdle /\ WdIdle /\ HrIdle

SpecPrice == InitPrice /\ [][PxNext]_vars

\* AIParser.scrape_offers on one page
InitAI == RxIdle /\ RunIdle /\ LlmIdle /\ VocIdle /\ PxIdle /\ AiInit /\ KfcIdle /\ IconIdle /\ DbIdle /\ QtyIdle /\ WdIdle /\ HrIdle

SpecAI == InitAI /\ [][AiNext]_vars

\* _scrape_restaurant of a restaurant whose parser is the KFCParser
InitKFC == RxIdle /\ RunIdle /\ LlmIdle /\ VocIdle /\ PxIdle /\ AiIdle /\ KfcInit /\ IconIdle /\ DbIdle /\ QtyIdle /\ WdIdle /\ HrIdle

SpecKFC == InitKFC /\ [][KfcNext]_vars

\* IconMapping.enhance_offer alone, on every offer, once and again
InitIcon == RxIdle /\ RunIdle /\ LlmIdle /\ VocIdle /\ PxIdle /\ AiIdle /\ KfcIdle /\ IconInit /\ DbIdle /\ QtyIdle /\ WdIdle /\ HrIdle

SpecIcon == InitIcon /\ [][IconNext]_vars

\* the persistence of scraped offers over runs of _scrape_restaurant
InitDb == RxIdle /\ RunIdle /\ LlmIdle /\ VocIdle /\ PxIdle /\ AiIdle /\ KfcIdle /\ IconIdle /\ DbInit /\ QtyIdle /\ WdIdle /\ HrIdle

SpecDb == InitDb /\ [][DbNext]_vars

\* the regex extractor's quantity of one phrase
InitQty == RxIdle /\ RunIdle /\ LlmIdle /\ VocIdle /\ PxIdle /\ AiIdle /\ KfcIdle /\ IconIdle /\ DbIdle /\ QtyInit /\ WdIdle /\ HrIdle

SpecQty == InitQty /\ [][QtyNext]_vars

\* the weekday extractor on one text
InitWeekdays == RxIdle /\ RunIdle /\ LlmIdle /\ VocIdle /\ PxIdle /\ AiIdle /\ KfcIdle /\ IconIdle /\ DbIdle /\ QtyIdle /\ WdInit /\ HrIdle

SpecWeekdays == InitWeekdays /\ [][WdNext]_vars

\* the hour extractor on one text
InitHours == RxIdle /\ RunIdle /\ LlmIdle /\ VocIdle /\ PxIdle /\ AiIdle /\ KfcIdle /\ IconIdle /\ DbIdle /\ QtyIdle /\ WdIdle /\ HrInit

SpecHours == InitHours /\ [][HrNext]_vars

Init == InitLLM

Next == LlmNext

Spec == Init /\ [][Next]_vars

\* --------------------------------------------------- claims: enhancement
\* the food-info records the enhancement has produced: the offers a parser
\* returned and the records extract_food_info_batch returned to it
EnhancedOffers == {enhanced[i] : i \in 1..Len(enhanced)}

BatchRecords ==
    UNION {{batch_returns[k].returned[i] : i \in 1..Len(batch_returns[k].returned)} :
            k \in 1..Len(batch_returns)}

MealTypes == {"individual", "combo", "sharing", "family", "dessert", "snack", "unknown"}

\* the stated total: the quantities of the items that are no alternative
RECURSIVE SumNonChoice(_)
SumNonChoice(items) ==
    IF items = <<>> THEN 0
    ELSE (IF Head(items).is_choice THEN 0 ELSE Head(items).quantity)
         + SumNonChoice(Tail(items))

\* the items that count for a combo: no alternative, category main, side or drink
ComboItems(items) ==
    {i \in 1..Len(items) :
        ~ items[i].is_choice /\ items[i].category \in {"main", "side", "drink"}}

\* C1: in every offer a parser's enhance_offers_with_food_info returns, the
\* four category lists together are as long as food_items, and every food item
\* is in exactly one of them.
C1_ExactPartition ==
    llm_pc = "enhanced" =>
        \A e \in EnhancedOffers :
            /\ Len(e.main_items) + Len(e.side_items) + Len(e.drink_items)
                 + Len(e.dessert_items) = Len(e.food_items)
            /\ \A i \in 1..Len(e.food_items) :
                  Cardinality({l \in {"main", "side", "drink", "dessert"} :
                      e.food_items[i] \in
                          Range(CASE l = "main" -> e.main_items
                                  [] l = "side" -> e.side_items
                                  [] l = "drink" -> e.drink_items
                                  [] OTHER -> e.dessert_items)}) = 1

\* C2: in every food-info record of the LLM extractor and of the Dominos TRIO
\* branch, total_food_items is the sum of the quantities of the items with
\* is_choice = false; the alternatives add nothing.
C2_TotalSkipsChoices ==
    llm_pc = "enhanced" =>
        \A e \in EnhancedOffers \cup BatchRecords :
            e.total_food_items = SumNonChoice(e.food_items)

\* C2 witness: an LLM record with an alternative beside an item that counts,
\* and a TRIO offer of three alternatives
C2_Witness ==
    /\ llm_pc = "enhanced"
    /\ \E e \in EnhancedOffers :
          /\ Len(e.food_items) = 2
          /\ e.food_items[1].is_choice
          /\ ~ e.food_items[2].is_choice
          /\ e.total_food_items = e.food_items[2].quantity
    /\ \E e \in EnhancedOffers :
          /\ _is_trio_offer(e)
          /\ Len(e.food_items) = 3
          /\ e.total_food_items = 0

\* C3: the meal_type of every food-info record is one of individual, combo,
\* sharing, family, dessert, snack, unknown, and it is snack whenever
\* food_items is empty.
C3_MealTypeInEnum ==
    llm_pc = "enhanced" =>
        \A e \in EnhancedOffers \cup BatchRecords :
            /\ e.meal_type \in MealTypes
            /\ e.food_items = <<>> => e.meal_type = "snack"

\* C4: no offer leaves the extraction with meal_type family unless its name
\* or description holds the family word.
C4_FamilyNeedsEvidence ==
    llm_pc = "enhanced" =>
        \A i \in 1..Len(enhanced) :
            enhanced[i].meal_type = "family" => HasFamilyEvidence(offers[i])

\* C7: in the records of the LLM path, is_combo is true only if at least two
\* items with is_choice = false have a category among main, side and drink.
C7_ComboNeedsTwoFixedItems ==
    llm_pc = "enhanced" =>
        \A e \in EnhancedOffers \cup BatchRecords :
            e.is_combo => Cardinality(ComboItems(e.food_items)) >= 2

\* C7 witness: a record of one counting item and one alternative of main, side
\* or drink, which is no combo, and a record of two counting items, which is
C7_Witness ==
    /\ llm_pc = "enhanced"
    /\ \E e \in BatchRecords :
          /\ Len(e.food_items) = 2
          /\ Cardinality(ComboItems(e.food_items)) = 1
          /\ \A i \in 1..2 : e.food_items[i].category \in {"main", "side", "drink"}
          /\ ~ e.is_combo

\* what the LLM did makes the extraction of the call fail: the call raised, or
\* the reply holds no JSON
CallFailed(plan) == ~ plan.prompt_raises /\ plan.reply.kind \in {"raise", "text", "badjson"}

SingleFailed(call) == call.prompt_raises \/ call.reply.kind \in {"raise", "text", "badjson"}

\* C10: extract_food_info_batch and BaseParser.enhance_offers_with_food_info
\* never raise, whatever the LLM call does; for a non-empty input they return
\* one record per offer, in the order of the offers, and the empty food info
\* where the extraction failed.
C10_OneRecordPerOffer ==
    llm_pc = "enhanced" =>
        /\ \A k \in 1..Len(batch_returns) :
              /\ ~ batch_returns[k].raised
              /\ Len(batch_returns[k].returned) = Len(batch_returns[k].offers)
        /\ parser = "base" =>
              /\ ~ enhance_raised
              /\ Len(enhanced) = Len(offers)
              /\ \A i \in 1..Len(offers) :
                    /\ enhanced[i].offer_name = offers[i].offer_name
                    /\ {"food_items", "meal_type", "total_food_items"}
                            \subseteq DOMAIN enhanced[i]
              /\ offers # <<>> =>
                    /\ Len(batch_returns) = 1
                    /\ CallFailed(llm_calls[1]) =>
                          \A i \in 1..Len(offers) :
                              batch_returns[1].returned[i] = LLMEmptyFoodInfo
                    /\ llm_calls[1].prompt_raises =>
                          \A i \in 1..Len(offers) :
                              SingleFailed(llm_calls[1].singles[i]) =>
                                  batch_returns[1].returned[i]
                                      = Update(offers[i], LLMEmptyFoodInfo)

\* C10 witness: two offers and a reply with an entry for one of them: the
\* first record holds its items, the second is the empty food info
C10_Witness ==
    /\ llm_pc = "enhanced"
    /\ parser = "base"
    /\ Len(offers) = 2
    /\ ~ llm_calls[1].prompt_raises
    /\ Len(llm_calls[1].reply.offers) = 1
    /\ Len(enhanced) = 2
    /\ enhanced[1].food_items # <<>>
    /\ batch_returns[1].returned[2] = LLMEmptyFoodInfo

\* a reply that is no JSON: no braces in the text, or json.loads fails
Unparseable(plan) == ~ plan.prompt_raises /\ plan.reply.kind \in {"text", "badjson"}

\* C11: when the batch reply cannot be parsed as JSON, extract_food_info_batch
\* gives the batch the empty food info and then submits each offer of the
\* batch to the LLM on its own, once.
C11_ParseFailureRetriesPerOffer ==
    (llm_pc = "enhanced" /\ parser = "base" /\ offers # <<>>
        /\ Unparseable(llm_calls[1])) =>
            batch_returns[1].submitted = Len(offers)

\* an entry the parse or the vocabulary update cannot take: a food item
\* without name or type, a new category without name, category or description
MalformedEntry(entry) ==
    \/ EntryRaises(entry)
    \/ \E i \in 1..Len(Get(entry, "new_categories", <<>>)) :
          ~ ({"name", "category", "description"}
                \subseteq DOMAIN entry.new_categories[i])

\* the entries of a batch reply are those of the first offers, in their order
EntriesInOrder(plan, n) ==
    /\ ~ plan.prompt_raises
    /\ plan.reply.kind = "json"
    /\ Len(plan.reply.offers) <= n
    /\ \A k \in 1..Len(plan.reply.offers) :
          /\ "offer_id" \in DOMAIN plan.reply.offers[k]
          /\ plan.reply.offers[k].offer_id = k

\* the record holds the food items of the entry, one for one
KeepsItemsOf(record, entry) ==
    /\ Len(record.food_items) = Len(Get(entry, "food_items", <<>>))
    /\ \A j \in 1..Len(record.food_items) :
          record.food_items[j].type = entry.food_items[j].type

\* C12: when the batch reply is valid JSON and the entry of one offer is
\* malformed, only that offer gets the empty food info; every other offer
\* keeps the food items parsed from its own entry.
C12_MalformedEntryIsolated ==
    (llm_pc = "enhanced" /\ parser = "base" /\ offers # <<>>
        /\ EntriesInOrder(llm_calls[1], Len(offers))) =>
            \A k \in 1..Len(llm_calls[1].reply.offers) :
                IF MalformedEntry(llm_calls[1].reply.offers[k])
                THEN batch_returns[1].returned[k] = LLMEmptyFoodInfo
                ELSE KeepsItemsOf(batch_returns[1].returned[k],
                                  llm_calls[1].reply.offers[k])

\* C19: for the Dominos TRIO offer, every alternative in food_items has
\* is_choice = true and all alternatives carry one and the same choice_group,
\* which is not null.
C19_TrioSharesChoiceGroup ==
    (llm_pc = "enhanced" /\ parser = "dominos") =>
        \A e \in EnhancedOffers :
            _is_trio_offer(e) =>
                /\ e.food_items # <<>>
                /\ \A i \in 1..Len(e.food_items) :
                      /\ e.food_items[i].is_choice
                      /\ Get(e.food_items[i], "choice_group", None) # None
                      /\ Get(e.food_items[i], "choice_group", None)
                            = Get(e.food_items[1], "choice_group", None)

\* C20: every offer appended to enhanced_offers_data carries a visual_summary
\* that is a non-empty string; for an offer without food items it is the
\* generic fallback string.
C20_VisualSummaryPresent ==
    llm_pc = "enhanced" =>
        \A i \in 1..Len(exported) :
            /\ "visual_summary" \in DOMAIN exported[i]
            /\ exported[i].visual_summary # ""
            /\ exported[i].food_items = <<>> =>
                  exported[i].visual_summary = BaseEmptyFoodInfo.visual_summary

\* C29: after the display enrichment every food item of an exported offer, in
\* food_items and in the four category lists, has a non-empty icon and a
\* non-empty icon_color, also when its type was proposed as a new category
\* earlier in the run.
C29_EveryItemHasIcon ==
    \A i \in 1..Len(exported) :
        \A k \in {"food_items", "main_items", "side_items", "drink_items",
                  "dessert_items"} \cap DOMAIN exported[i] :
            \A j \in 1..Len(exported[i][k]) :
                /\ exported[i][k][j].icon # ""
                /\ exported[i][k][j].icon_color # ""

\* ------------------------------------------------ claims: vocabulary store
\* C14: once a category has been written to the vocabulary file it is in the
\* file after every later _update_categories / _save_categories of any
\* extractor: the stored vocabulary only grows.
C14_VocabularyOnlyGrows == voc_written \subseteq DOMAIN voc_file

\* the first proposal for a name in a new_categories list
FirstProposal(new_categories, name) ==
    new_categories[CHOOSE k \in 1..Len(new_categories) :
                      /\ new_categories[k].name = name
                      /\ \A j \in 1..(k - 1) : new_categories[j].name # name]

\* C15: _update_categories leaves every entry the vocabulary already holds as
\* it is (terms, category, icon, description), whatever is proposed for its
\* name; a name not yet held is added once, from its first proposal, with an
\* empty icon.
C15_UpdateNeverOverwrites ==
    /\ \A name \in DOMAIN voc_last.before :
          /\ name \in DOMAIN voc_last.after
          /\ voc_last.after[name] = voc_last.before[name]
    /\ \A name \in DOMAIN voc_last.after \ DOMAIN voc_last.before :
          /\ \E k \in 1..Len(voc_last.new_categories) :
                voc_last.new_categories[k].name = name
          /\ voc_last.after[name] =
                [terms |-> <<name>>,
                 category |-> FirstProposal(voc_last.new_categories, name).category,
                 icon |-> "",
                 description |->
                    FirstProposal(voc_last.new_categories, name).description]
    /\ ~ voc_last.raised =>
          \A k \in 1..Len(voc_last.new_categories) :
              voc_last.new_categories[k].name \in DOMAIN voc_last.after

\* C15 witness: an update whose list proposes another category for a name the
\* vocabulary holds and then a new name, twice
C15_Witness ==
    /\ voc_last.extractor >= 0
    /\ "wrap" \notin DOMAIN voc_last.before
    /\ "wrap" \in DOMAIN voc_last.after
    /\ \E k \in 1..Len(voc_last.new_categories) :
          /\ voc_last.new_categories[k].name = "pizza"
          /\ voc_last.new_categories[k].category # voc_last.before["pizza"].category
    /\ voc_mem[voc_last.extractor] = voc_last.after

\* -------------------------------------------------- claims: icon mapping
\* the icon and icon_color of the items of a list
IconsOf(items) ==
    [j \in 1..Len(items) |-> [icon |-> items[j].icon, icon_color |-> items[j].icon_color]]

\* the display fields of an enhanced offer
DisplayFields(o) ==
    [standardized_tags |-> o.standardized_tags,
     food_items    |-> IconsOf(o.food_items),
     main_items    |-> IconsOf(o.main_items),
     side_items    |-> IconsOf(o.side_items),
     drink_items   |-> IconsOf(o.drink_items),
     dessert_items |-> IconsOf(o.dessert_items)]

\* C21: enhance_offer(enhance_offer(o)) has the same icon and icon_color on
\* every food item of the five lists and the same standardized_tags as
\* enhance_offer(o).
C21_EnhanceOfferIdempotent ==
    icon_pc = "twice" => DisplayFields(icon_twice) = DisplayFields(icon_once)

\* an offer with tags and an item of every kind of icon, enhanced twice
C21_Witness ==
    /\ icon_pc = "twice"
    /\ Len(icon_once.standardized_tags) = 3
    /\ \E j \in 1..Len(icon_twice.food_items) : icon_twice.food_items[j].icon = ""
    /\ \E j \in 1..Len(icon_twice.food_items) : icon_twice.food_items[j].icon = "mdi:food"

\* the labels whose rule the offer satisfies, in the fixed order
SatisfiedLabels(offer) == SelectSeq(TagLabels, LAMBDA l : RuleSatisfied(l, offer))

\* C22: generate_standardized_tags returns at most 3 tags with pairwise
\* distinct labels, at most one of them a drink tag, and they are the first
\* three satisfied rules in the fixed order.
C22_FirstThreeRulesInOrder ==
    icon_pc \in {"once", "twice"} =>
        /\ Len(icon_once.standardized_tags) <= 3
        /\ \A i, j \in 1..Len(icon_once.standardized_tags) :
              i # j => icon_once.standardized_tags[i].label # icon_once.standardized_tags[j].label
        /\ Cardinality({i \in 1..Len(icon_once.standardized_tags) :
                          icon_once.standardized_tags[i].label \in {"Gos", "Drykkur"}}) <= 1
        /\ Len(icon_once.standardized_tags) =
              (IF Len(SatisfiedLabels(icon_offer)) < 3 THEN Len(SatisfiedLabels(icon_offer)) ELSE 3)
        /\ \A i \in 1..Len(icon_once.standardized_tags) :
              icon_once.standardized_tags[i].label = SatisfiedLabels(icon_offer)[i]

\* four rules are satisfied and the fourth tag is left out
C22_Witness ==
    /\ icon_pc = "once"
    /\ Len(SatisfiedLabels(icon_offer)) = 4
    /\ Len(icon_once.standardized_tags) = 3
    /\ SatisfiedLabels(icon_offer)[4] = "Gos"

\* ---------------------------------------------------- claims: KFC parser
\* C18: the search by content runs only when the offer sections yielded no
\* product element, and the restaurant is counted as having no offers only
\* after the AI-backed strategy was run as well.
C18_AiBeforeNoOffers ==
    kfc_pc = "handled" =>
        /\ "content" \in Range(kfc_strategies) => kfc_page.sections = <<>>
        /\ kfc_failed > 0 => "ai" \in Range(kfc_strategies)

\* ----------------------------------------------------- claims: AI parser
\* C13: _extract_offers_with_ai makes at most two completion calls per page,
\* the first to the primary model, the second to the fallback model and only
\* after the primary raised; when both raise the result is the empty list.
C13_AtMostTwoCompletionCalls ==
    ai_pc = "scraped" =>
        /\ Len(ai_calls) <= 2
        /\ Len(ai_calls) >= 1 => ai_calls[1].model = AI_MODEL
        /\ Len(ai_calls) >= 2 =>
              /\ ai_calls[1].raised
              /\ ai_calls[2].model = AI_MODEL_FALLBACK
        /\ (ai_calls # <<>> /\ \A i \in 1..Len(ai_calls) : ai_calls[i].raised) =>
              /\ Len(ai_calls) = 2
              /\ ai_offers = <<>>

\* both models were called and both raised
C13_Witness ==
    /\ ai_pc = "scraped"
    /\ Len(ai_calls) = 2
    /\ ai_calls[1].raised
    /\ ai_calls[2].raised
    /\ ai_offers = <<>>

\* C16: an offer is in the result of _extract_offers_with_ai only if its name
\* is non-empty and its price is inside the window [500, 15000].
C16_AcceptedHasNameAndPrice ==
    ai_pc = "scraped" =>
        \A i \in 1..Len(ai_offers) :
            /\ HasName(ai_offers[i])
            /\ ai_offers[i].price_kr # None
            /\ 500 <= ai_offers[i].price_kr[1]
            /\ ai_offers[i].price_kr[1] <= 15000

\* -------------------------------------------- claims: price extraction
\* C17: _extract_price_kr returns None or an integer p with 500 <= p <= 15000,
\* whichever pattern or the final scan of the bare numbers matched.
C17_PriceInsideWindow ==
    px_pc = "extracted" =>
        \/ price_kr = None
        \/ /\ price_kr[1] \in Int
           /\ 500 <= price_kr[1]
           /\ price_kr[1] <= 15000

\* a text whose first match is outside the window and whose price comes from
\* a later number
C17_Witness ==
    /\ px_pc = "extracted"
    /\ price_text = <<"1", "5", "0", "0", "1", " ", "5", "0", "0">>
    /\ price_kr = Some(500)

\* ------------------------------------------------- claims: regex extractor
\* the stated classifier: the five rules of the meal classifier, no others
ClassifyByRules(items) ==
    IF CountCategory(items, {"main"}) >= 2 THEN "sharing"
    ELSE IF CountCategory(items, {"main"}) = 1
            /\ (HasCategory(items, "side") \/ HasCategory(items, "drink"))
         THEN "combo"
    ELSE IF CountCategory(items, {"main"}) = 1 THEN "individual"
    ELSE IF HasCategory(items, "dessert") THEN "dessert"
    ELSE "snack"

\* C5: _determine_meal_type is the five-rule function: >= 2 main items ->
\* sharing; one main item with a side or drink -> combo; one main item alone
\* -> individual; no main item but a dessert -> dessert; otherwise snack.
C5_MealTypeByRules ==
    rx_pc \in {"extracted", "remerged"} =>
        rx_result.meal_type = ClassifyByRules(rx_result.food_items)

\* C6: merging an already merged list changes nothing: the second pass returns
\* the same items with the same quantities and modifiers.
C6_MergeIdempotent ==
    rx_pc = "remerged" => rx_again = rx_result.food_items

\* C6 witness: a second pass ran on a list in which the first pass had merged
\* two items and united their modifiers
C6_Witness ==
    /\ rx_pc = "remerged"
    /\ Len(rx_result.food_items) < Len(rx_scanned)
    /\ \E i \in 1..Len(rx_result.food_items) :
          /\ Len(rx_result.food_items[i].modifiers) = 2
          /\ rx_result.food_items[i].modifiers # rx_scanned[i].modifiers

\* C8: is_combo is true exactly when at least two distinct categories among
\* main, side and drink occur in the merged item list.
C8_ComboIffTwoCategories ==
    rx_pc \in {"extracted", "remerged"} =>
        (rx_result.is_combo <=>
            Cardinality({c \in {"main", "side", "drink"} :
                            HasCategory(rx_result.food_items, c)}) >= 2)

\* --------------------------------------------------- claims: orchestrator
\* a restaurant whose scrape failed: nothing of it was fetched, enhanced,
\* enriched or persisted
FailedOutcome(o) ==
    \/ o.kind \in {"scrape_raised", "no_offers", "enhance_raised", "enrich_raised"}
    \/ o.kind = "batch_failed" /\ o.singles = 0

\* C9: whatever happens while a restaurant is scraped, run handles every
\* restaurant of the loaded list exactly once and in list order, counts each
\* failing restaurant in failed_scrapes, and does not abort.
C9_RunHandlesEveryRestaurant ==
    /\ Len(handled) <= Len(restaurants)
    /\ \A i \in 1..Len(handled) : handled[i].name = restaurants[i]
    /\ stats.failed_scrapes =
          Cardinality({i \in 1..Len(handled) : FailedOutcome(handled[i].outcome)})
    /\ run_pc = "raised" => handled = <<>> /\ restaurants = <<>>
    /\ run_pc = "done" => Len(handled) = Len(restaurants)
    /\ run_pc = "loop" => ENABLED (ScrapeNext \/ FinishRun)

\* C9 witness: a finished run over three restaurants in which a scrape raised, a
\* restaurant had no offers, and an enrichment or save failed, each followed by
\* a later restaurant
C9_Witness ==
    /\ run_pc = "done"
    /\ Len(handled) = 3
    /\ handled[1].outcome.kind \in {"scrape_raised", "enhance_raised", "enrich_raised"}
    /\ handled[2].outcome.kind = "batch_failed"
    /\ handled[2].outcome.singles = 0
    /\ handled[3].outcome.kind = "batch_saved"
    /\ stats.failed_scrapes = 2

\* C28: after each restaurant handled by run, successful_scrapes +
\* failed_scrapes = restaurants_processed: every restaurant increments exactly
\* one of the two counters, on every path.
C28_EveryRestaurantCountedOnce ==
    run_pc \in {"loop", "done"} =>
        /\ stats.restaurants_processed = Len(handled)
        /\ stats.successful_scrapes + stats.failed_scrapes = stats.restaurants_processed

\* a run over three restaurants: an exception, a batch save that failed with
\* no offer saved one by one, and one with an offer saved one by one
C28_Witness ==
    /\ run_pc = "done"
    /\ Len(handled) = 3
    /\ handled[1].outcome.kind = "enhance_raised"
    /\ handled[2].outcome.kind = "batch_failed" /\ handled[2].outcome.singles = 0
    /\ handled[3].outcome.kind = "batch_failed" /\ handled[3].outcome.singles = 1
    /\ stats.successful_scrapes = 1
    /\ stats.failed_scrapes = 2

\* ------------------------------------------------------ claims: persistence
\* display-only keys of an enhanced offer
DisplayOnly ==
    {"food_items", "meal_type", "is_combo", "main_items", "side_items", "drink_items",
     "dessert_items", "standardized_tags", "display_properties", "total_food_items",
     "restaurant_name"}

\* C23: prepare_offers_for_database returns one record per enhanced offer, in
\* the same order, whose keys are core database fields only and whose values
\* are those of the enhanced offer, and leaves the offers passed in unchanged.
C23_PrepareFiltersAndKeeps ==
    db_outcome.kind \notin {"none", "no_offers"} =>
        /\ Len(db_offers) = Len(db_passed)
        /\ \A i \in 1..Len(db_offers) :
            /\ DOMAIN db_offers[i] \subseteq db_fields
            /\ DOMAIN db_offers[i] \cap DisplayOnly = {}
            /\ DOMAIN db_offers[i] = DOMAIN db_passed[i] \cap db_fields
            /\ \A key \in DOMAIN db_offers[i] : db_offers[i][key] = db_passed[i][key]
        /\ db_enhanced = db_passed

\* two different enhanced offers with food info were prepared, one of them
\* without a price
C23_Witness ==
    /\ db_outcome.kind = "batch_saved"
    /\ Len(db_passed) = 2
    /\ db_passed[1].offer_name = "Tilbod B"
    /\ db_passed[2].offer_name = "Tilbod A"
    /\ "food_items" \in DOMAIN db_passed[1]
    /\ db_offers[1] = [offer_name |-> "Tilbod B", description |-> "tveir fyrir einn"]
    /\ db_offers[2].price_kr = 1990

\* the rows of the restaurant handled last
StoredOffers == SelectSeq(db_table, LAMBDA row : row.restaurant_id = db_restaurant)

\* the rows this run's offers make
ScrapedRows ==
    [i \in 1..Len(db_offers) |->
        Row(Update(db_offers[i], [source_url |-> offers_url(db_restaurant),
                                  restaurant_id |-> db_restaurant]),
            db_runs)]

CountedSuccessful ==
    \/ db_outcome.kind = "batch_saved"
    \/ db_outcome.kind = "batch_failed" /\ db_outcome.singles > 0

\* C27: after a restaurant's scrape is counted in successful_scrapes, the
\* persisted offers of that restaurant are exactly the offers scraped in this
\* run, also when save_offers_batch failed and the offers were saved one by one.
C27_StoredAreThisRunsOffers ==
    CountedSuccessful => StoredOffers = ScrapedRows

\* ------------------------------------------------- claims: batch positions
\* the entries of a well-formed batch reply that name offer i
EntriesFor(plan, i) ==
    {k \in 1..Len(plan.reply.offers) : plan.reply.offers[k].offer_id = i}

\* a batch reply that was parsed, every entry of which is well formed and
\* carries an offer_id
WellFormedReply(plan) ==
    /\ ~ plan.prompt_raises
    /\ plan.reply.kind = "json"
    /\ \A k \in 1..Len(plan.reply.offers) :
          /\ "offer_id" \in DOMAIN plan.reply.offers[k]
          /\ ~ MalformedEntry(plan.reply.offers[k])

\* C26: the food info at position i of the result of _parse_batch_llm_response
\* is that of the response entry whose offer_id is i+1 (counting positions from
\* 0); an offer without a matching entry gets no food items, whether the
\* response omits, reorders or repeats offer IDs.
C26_FoodInfoFollowsOfferId ==
    (llm_pc = "enhanced" /\ parser = "base" /\ offers # <<>>
        /\ WellFormedReply(llm_calls[1])) =>
            \A i \in 1..Len(offers) :
                IF EntriesFor(llm_calls[1], i) = {}
                THEN batch_returns[1].returned[i].food_items = <<>>
                ELSE \E k \in EntriesFor(llm_calls[1], i) :
                        KeepsItemsOf(batch_returns[1].returned[i],
                                     llm_calls[1].reply.offers[k])

\* ---------------------------------------------- claims: regex quantities
\* the digit runs immediately before the matched term
AdjacentDigits(phrase, term) ==
    {i \in 1..(Len(phrase) - 1) : phrase[i] \in DOMAIN Numerals /\ phrase[i + 1] = term}

\* C30: the quantity of an item is the digit immediately adjacent to the
\* matched food term, else the value of an Icelandic number word in the
\* phrase, else 1; a number of a size expression earlier in the phrase
\* ("12 tommu pizza") is not taken as the quantity.
C30_QuantityAdjacentWordOrOne ==
    qty_pc = "done" =>
        IF AdjacentDigits(qty_phrase, "pizza") # {}
        THEN \E i \in AdjacentDigits(qty_phrase, "pizza") :
                qty_item.quantity = Numerals[qty_phrase[i]]
        ELSE IF NumberWordsIn(qty_phrase) # <<>>
        THEN \E k \in 1..Len(NumberWordsIn(qty_phrase)) :
                qty_item.quantity = NumberWordsIn(qty_phrase)[k].value
        ELSE qty_item.quantity = 1

\* ---------------------------------------------------- claims: weekdays
CanonicalWeekdays ==
    {"manudagur", "thridjudagur", "midvikudagur", "fimmtudagur", "fostudagur",
     "laugardagur", "sunnudagur"}

VirkaDaga == <<"manudagur", "thridjudagur", "midvikudagur", "fimmtudagur", "fostudagur">>

Helgar == <<"laugardagur", "sunnudagur">>

\* the text holds a term of the group
HasGroupTerm(k) ==
    \E term \in special_day_patterns[k].terms : OccursIn(term, LowerText(wd_text))

\* the days matched by a form of their own
NamedDays ==
    {weekday_patterns[k].day : k \in {n \in 1..Len(weekday_patterns) :
        \E i \in 1..Len(wd_text) : lower(wd_text[i]) \in weekday_patterns[n].forms}}

\* C24: extract_weekdays returns only the seven canonical nominative weekday
\* tokens and never the same token twice; a "virka daga" term yields exactly
\* the five working days and a "helgar" term exactly Saturday and Sunday,
\* also when individual weekday forms are matched in the same text.
C24_CanonicalWeekdaysOnce ==
    wd_pc = "done" =>
        /\ Range(wd_found) \subseteq CanonicalWeekdays
        /\ \A i, j \in 1..Len(wd_found) : wd_found[i] = wd_found[j] => i = j
        /\ Range(wd_found) = NamedDays
                \cup (IF HasGroupTerm(1) THEN Range(VirkaDaga) ELSE {})
                \cup (IF HasGroupTerm(2) THEN Range(Helgar) ELSE {})
        /\ (NamedDays = {} /\ HasGroupTerm(1) /\ ~ HasGroupTerm(2)) => wd_found = VirkaDaga
        /\ (NamedDays = {} /\ HasGroupTerm(2) /\ ~ HasGroupTerm(1)) => wd_found = Helgar

\* a text naming Friday in the dative and the working days as a group
C24_Witness ==
    /\ wd_pc = "done"
    /\ wd_text = <<"fostudegi", "virka", "daga">>
    /\ wd_found = <<"fostudagur", "manudagur", "thridjudagur", "midvikudagur",
                    "fimmtudagur">>

\* ------------------------------------------------------- claims: hours
\* the explicit ranges of the text, written HH:MM-HH:MM
ExplicitRanges ==
    {time_range(hr_text[i]) : i \in {n \in 1..Len(hr_text) : hr_text[n].kind # "word"}}

\* the canned ranges of the meal-time words of the text
CannedRanges ==
    {meal_times[k].time_range : k \in {n \in 1..Len(meal_times) :
                                          MealIn(meal_times[n].meal, hr_text)}}

\* C25: extract_hours adds the canned range of a meal-time word only when the
\* text holds no explicit range; a text with both a meal-time word and an
\* explicit range yields exactly the explicit range.
C25_CannedOnlyWithoutExplicit ==
    hr_pc = "done" =>
        IF ExplicitRanges # {}
        THEN Range(hr_found) = ExplicitRanges
        ELSE Range(hr_found) = CannedRanges

====
